---- MODULE Spec2Model ----
(***************************************************************************)
(* A model of the knowledge-extraction pipeline of                         *)
(* novel_generator/knowledge_parser.py: the concurrent per-segment         *)
(* extraction (_process_segment_concurrently), the hierarchical merge      *)
(* (_hierarchical_merge_results, _ai_merge_group, _fallback_merge_group)   *)
(* and the structural merges (_merge_worldview_data, _merge_dict_data,     *)
(* _merge_character_lists).                                                *)
(*                                                                         *)
(* JSON values are tagged records [t, v]:                                  *)
(*   str  : v is a sequence of one-character strings                       *)
(*   num  : v is a natural number                                          *)
(*   bool : v is a boolean                                                 *)
(*   null : Python None (also the "no result" of a task)                   *)
(*   list : v is a sequence of values                                      *)
(*   dict : v is a function from key names to values                       *)
(* Raised stands for an exception leaving the function that was called.    *)
(***************************************************************************)
EXTENDS Integers, Sequences, FiniteSets, TLC

\* ------------------------------------------------------------------ bounds
MaxChunks == 3
MaxWorkers == 2
MaxResults == 3
\* group_size=4 is the default of _hierarchical_merge_results
DefaultGroupSize == 4

\* ------------------------------------------------------------------ values
Str(s) == [t |-> "str", v |-> s]
Num(n) == [t |-> "num", v |-> n]
Bool(b) == [t |-> "bool", v |-> b]
Null == [t |-> "null", v |-> 0]
List(s) == [t |-> "list", v |-> s]
Dict(f) == [t |-> "dict", v |-> f]
Raised == [t |-> "raised", v |-> 0]

IsDict(x) == x.t = "dict"
IsList(x) == x.t = "list"
IsStr(x) == x.t = "str"

EmptyDict == Dict(<<>>)
EmptyList == List(<<>>)

\* Python truthiness (`if not x`)
Truthy(x) ==
  CASE x.t = "dict" -> DOMAIN x.v # {}
    [] x.t = "list" -> Len(x.v) > 0
    [] x.t = "str" -> Len(x.v) > 0
    [] x.t = "num" -> x.v # 0
    [] x.t = "bool" -> x.v
    [] OTHER -> FALSE

\* dict.get(key, default)
Get(d, key, default) == IF key \in DOMAIN d.v THEN d.v[key] ELSE default

\* `a in b` on two strings (sequences of characters)
IsSubstr(a, b) ==
  \E i \in 0..Len(b) : i + Len(a) <= Len(b) /\ SubSeq(b, i + 1, i + Len(a)) = a

DigitChar == <<"0", "1", "2", "3", "4", "5", "6", "7", "8", "9">>

RECURSIVE Digits(_)
Digits(n) ==
  IF n < 10 THEN <<DigitChar[n + 1]>>
  ELSE Digits(n \div 10) \o <<DigitChar[(n % 10) + 1]>>

\* str(item), as used to de-duplicate list elements.  A string is its own
\* text, a number its decimal digits, None the text "None"; a list or a
\* mapping is kept as the value itself (its repr is determined by the value).
StrOf(item) ==
  CASE item.t = "str" -> item
    [] item.t = "num" -> Str(Digits(item.v))
    [] item.t = "null" -> Str(<<"N", "o", "n", "e">>)
    [] item.t = "bool" -> Str(IF item.v THEN <<"T", "r", "u", "e">>
                                        ELSE <<"F", "a", "l", "s", "e">>)
    [] OTHER -> item

\* f"{n:03d}"
Pad3(n) ==
  IF n < 10 THEN <<"0", "0">> \o Digits(n)
  ELSE IF n < 100 THEN <<"0">> \o Digits(n)
  ELSE Digits(n)

SegId(n) == Str(<<"s", "e", "g", "_">> \o Pad3(n))

\* ------------------------------------------------------ structural merges

\* The list branch of _merge_dict_data: existing_items is computed once from
\* the base list and is not updated while the new items are appended.
ExtendUnseenOnce(base_items, new_items) ==
  LET existing_items == {StrOf(base_items[i]) : i \in 1..Len(base_items)}
  IN base_items \o SelectSeq(new_items, LAMBDA item : StrOf(item) \notin existing_items)

RECURSIVE _merge_dict_data(_, _)
_merge_dict_data(base_dict, new_dict) ==
  LET b == base_dict.v
      n == new_dict.v
  IN Dict([key \in (DOMAIN b) \cup (DOMAIN n) |->
       IF key \notin DOMAIN n THEN b[key]
       ELSE IF key \notin DOMAIN b THEN n[key]
       ELSE IF IsDict(n[key]) /\ IsDict(b[key])
         THEN _merge_dict_data(b[key], n[key])
       ELSE IF IsList(n[key]) /\ IsList(b[key])
         THEN [b[key] EXCEPT !.v = ExtendUnseenOnce(b[key].v, n[key].v)]
       ELSE b[key]])

\* The list branch of _merge_worldview_data: every appended item is added to
\* existing_items, so duplicates inside the new list are appended once.
RECURSIVE ExtendUnseen(_, _, _)
ExtendUnseen(base_items, new_items, existing_items) ==
  IF new_items = <<>> THEN base_items
  ELSE LET item == Head(new_items)
       IN IF StrOf(item) \in existing_items
            THEN ExtendUnseen(base_items, Tail(new_items), existing_items)
            ELSE ExtendUnseen(Append(base_items, item), Tail(new_items),
                              existing_items \cup {StrOf(item)})

\* _merge_worldview_data where the first value of a key always wins
_merge_worldview_data_keepBase(base_data, new_data) ==
  IF ~Truthy(base_data) THEN new_data
  ELSE IF ~Truthy(new_data) THEN base_data
  ELSE Dict([key \in (DOMAIN base_data.v) \cup (DOMAIN new_data.v) |->
              IF key \in DOMAIN base_data.v THEN base_data.v[key]
              ELSE new_data.v[key]])

_merge_worldview_data(base_data, new_data) ==
  IF ~Truthy(base_data) THEN new_data
  ELSE IF ~Truthy(new_data) THEN base_data
  ELSE
    LET b == base_data.v
        n == new_data.v
    IN Dict([key \in (DOMAIN b) \cup (DOMAIN n) |->
         IF key \notin DOMAIN n THEN b[key]
         ELSE IF key \notin DOMAIN b THEN n[key]
         ELSE IF IsList(n[key]) /\ IsList(b[key])
           THEN [b[key] EXCEPT !.v =
                   ExtendUnseen(b[key].v, n[key].v,
                                {StrOf(b[key].v[i]) : i \in 1..Len(b[key].v)})]
         ELSE IF IsDict(n[key]) /\ IsDict(b[key])
           THEN _merge_dict_data(b[key], n[key])
         ELSE IF IsStr(n[key]) /\ IsStr(b[key])
           THEN IF IsSubstr(n[key].v, b[key].v) THEN b[key]
                ELSE Str(b[key].v \o <<"\n">> \o n[key].v)
         ELSE b[key]])

\* Index of the first entry of merged whose .get("name") equals char_name,
\* 0 when there is none.
FirstNamed(merged, char_name) ==
  LET hits == {i \in 1..Len(merged) : Get(merged[i], "name", Null) = char_name}
  IN IF hits = {} THEN 0 ELSE CHOOSE i \in hits : \A j \in hits : i <= j

\* PlaceMerged taking the entry out of its place and putting the merged one
\* at the end of the list
PlaceMerged_atEnd(merged, i, value) ==
  Append(SubSeq(merged, 1, i - 1) \o SubSeq(merged, i + 1, Len(merged)), value)

\* `merged[i] = self._merge_dict_data(existing_char, new_char)`
PlaceMerged(merged, i, value) == [merged EXCEPT ![i] = value]

\* The loop of _merge_character_lists over new_list; an entry that is not a
\* mapping has no .get and raises AttributeError.
RECURSIVE MergeCharLoop(_, _, _)
MergeCharLoop(merged, existing_names, new_items) ==
  IF new_items = <<>> THEN List(merged)
  ELSE
    LET new_char == Head(new_items) IN
    IF ~IsDict(new_char) THEN Raised
    ELSE
      LET char_name == Get(new_char, "name", Str(<<>>)) IN
      IF Truthy(char_name) /\ char_name \notin existing_names
        THEN MergeCharLoop(Append(merged, new_char),
                           existing_names \cup {char_name}, Tail(new_items))
      ELSE IF char_name \in existing_names
        THEN LET i == FirstNamed(merged, char_name)
             IN MergeCharLoop(
                  IF i = 0 THEN merged
                  ELSE PlaceMerged(merged, i, _merge_dict_data(merged[i], new_char)),
                  existing_names, Tail(new_items))
      ELSE MergeCharLoop(merged, existing_names, Tail(new_items))

\* _merge_character_lists as plain concatenation
_merge_character_lists_concat(base_list, new_list) ==
  List(base_list.v \o new_list.v)

_merge_character_lists(base_list, new_list) ==
  IF ~Truthy(base_list) THEN new_list
  ELSE IF ~Truthy(new_list) THEN base_list
  ELSE IF \E i \in 1..Len(base_list.v) : ~IsDict(base_list.v[i]) THEN Raised
  ELSE MergeCharLoop(base_list.v,
                     {Get(base_list.v[i], "name", Str(<<>>)) : i \in 1..Len(base_list.v)},
                     new_list.v)

\* merged = base.copy() is a shallow copy and merged[key] = value stores the
\* incoming object itself: a list found in the merged value is the list
\* object of one of the arguments, which .append extends in place.  To follow
\* the objects, every list an argument holds under its keys is marked with
\* the argument it belongs to; the merges above keep the mark of the list
\* they extend.
RECURSIVE Marked(_, _)
Marked(x, owner) ==
  IF IsList(x) THEN [t |-> "list", v |-> x.v, id |-> owner]
  ELSE IF IsDict(x) THEN Dict([key \in DOMAIN x.v |-> Marked(x.v[key], owner)])
  ELSE x

RECURSIVE Unmarked(_)
Unmarked(x) ==
  IF IsList(x) THEN List(x.v)
  ELSE IF IsDict(x) THEN Dict([key \in DOMAIN x.v |-> Unmarked(x.v[key])])
  ELSE x

\* The value of the argument original, marked owner, once the merge has
\* built merged: its lists that are part of merged hold what merged holds
RECURSIVE AfterAppends(_, _, _)
AfterAppends(original, owner, merged) ==
  IF IsList(original)
    THEN IF IsList(merged) /\ merged.id = owner THEN List(merged.v) ELSE original
  ELSE IF IsDict(original) /\ IsDict(merged)
    THEN Dict([key \in DOMAIN original.v |->
                IF key \in DOMAIN merged.v
                  THEN AfterAppends(original.v[key], owner, merged.v[key])
                  ELSE original.v[key]])
  ELSE original

\* Whether _merge_worldview_data(base_data, new_data) reaches its loop
ReachesWorldviewLoop(base_data, new_data) == Truthy(base_data) /\ Truthy(new_data)

WorldviewBuilt(base_data, new_data) ==
  _merge_worldview_data(Marked(base_data, 1), Marked(new_data, 2))

\* base_data and new_data after _merge_worldview_data(base_data, new_data)
WorldviewBaseAfter(base_data, new_data) ==
  IF ~ReachesWorldviewLoop(base_data, new_data) THEN base_data
  ELSE AfterAppends(base_data, 1, WorldviewBuilt(base_data, new_data))

WorldviewNewAfter(base_data, new_data) ==
  IF ~ReachesWorldviewLoop(base_data, new_data) THEN new_data
  ELSE AfterAppends(new_data, 2, WorldviewBuilt(base_data, new_data))

\* The entries of new_list the loop of _merge_character_lists reaches: those
\* before the first one that is not a mapping
RECURSIVE ReachedEntries(_)
ReachedEntries(new_items) ==
  IF new_items = <<>> \/ ~IsDict(Head(new_items)) THEN <<>>
  ELSE <<Head(new_items)>> \o ReachedEntries(Tail(new_items))

\* Whether _merge_character_lists(base_list, new_list) reaches its loop
ReachesCharLoop(base_list, new_list) ==
  /\ Truthy(base_list)
  /\ Truthy(new_list)
  /\ \A i \in 1..Len(base_list.v) : IsDict(base_list.v[i])

BaseNames(base_list) ==
  {Get(base_list.v[i], "name", Str(<<>>)) : i \in 1..Len(base_list.v)}

\* The list the loop has built when it ends or raises, the entries of
\* base_list marked 1, 2, ... and those of new_list after them
CharLoopBuilt(base_list, new_list) ==
  LET reached == ReachedEntries(new_list.v) IN
  MergeCharLoop([i \in 1..Len(base_list.v) |-> Marked(base_list.v[i], i)],
                BaseNames(base_list),
                [j \in 1..Len(reached) |-> Marked(reached[j], Len(base_list.v) + j)]).v

\* An entry after the loop: its lists are part of at most one built entry
RECURSIVE EntryAfter(_, _, _, _)
EntryAfter(entry, owner, built, i) ==
  IF i > Len(built) THEN entry
  ELSE EntryAfter(AfterAppends(entry, owner, built[i]), owner, built, i + 1)

\* base_list after _merge_character_lists(base_list, new_list): the list
\* itself is copied, its entries are not
CharBaseAfter(base_list, new_list) ==
  IF ~ReachesCharLoop(base_list, new_list) THEN base_list
  ELSE List([i \in 1..Len(base_list.v) |->
              EntryAfter(base_list.v[i], i, CharLoopBuilt(base_list, new_list), 1)])

\* new_list after the call
CharNewAfter(base_list, new_list) ==
  IF ~ReachesCharLoop(base_list, new_list) THEN new_list
  ELSE List([j \in 1..Len(new_list.v) |->
              IF IsDict(new_list.v[j])
                THEN EntryAfter(new_list.v[j], Len(base_list.v) + j,
                                CharLoopBuilt(base_list, new_list), 1)
                ELSE new_list.v[j]])


\* ------------------------------------------------- completion-service calls

\* What one call of invoke_with_cleaning gives its caller:
\*   raise : the call raises inside the caller's try block
\*   empty : empty or whitespace-only text
\*   text  : non-empty text that json.loads rejects (val is the text)
\*   json  : non-empty text that json.loads parses to val
LlmRaise == [kind |-> "raise", val |-> Null]
LlmEmpty == [kind |-> "empty", val |-> Null]
LlmText(s) == [kind |-> "text", val |-> Str(s)]
LlmJson(x) == [kind |-> "json", val |-> x]

Categories == {"worldview", "characters", "plot"}

\* EmptyValue without the test for characters
EmptyValue_alwaysDict(extraction_type) == EmptyDict

\* `{} if extraction_type != "characters" else []`
EmptyValue(extraction_type) ==
  IF extraction_type # "characters" THEN EmptyDict ELSE EmptyList

\* ------------------------------------------------------ hierarchical merge

\* merge_func as the three callers pass it: _merge_character_lists for
\* characters, _merge_worldview_data for worldview and for plot.
merge_func(extraction_type, base, new) ==
  IF extraction_type = "characters" THEN _merge_character_lists(base, new)
  ELSE _merge_worldview_data(base, new)

RECURSIVE FallbackLoop(_, _, _)
FallbackLoop(result, items, extraction_type) ==
  IF items = <<>> \/ result = Raised THEN result
  ELSE
    LET item == Head(items) IN
    IF extraction_type = "characters"
      THEN FallbackLoop(IF IsList(item) THEN _merge_character_lists(result, item)
                        ELSE result,
                        Tail(items), extraction_type)
      ELSE FallbackLoop(IF IsDict(item) THEN merge_func(extraction_type, result, item)
                        ELSE result,
                        Tail(items), extraction_type)

\* _fallback_merge_group with `result = item` in place of the merge
_fallback_merge_group_overwrite(group, extraction_type) ==
  LET usable == SelectSeq(group, LAMBDA item :
                   IF extraction_type = "characters" THEN IsList(item) ELSE IsDict(item))
  IN IF usable = <<>> THEN EmptyValue(extraction_type) ELSE usable[Len(usable)]

_fallback_merge_group(group, extraction_type) ==
  FallbackLoop(EmptyValue(extraction_type), group, extraction_type)

\* response is what invoke_with_cleaning gives for the merge prompt; it is
\* read only for a group of two or more.
_ai_merge_group(group, extraction_type, response) ==
  IF group = <<>> THEN EmptyValue(extraction_type)
  ELSE IF Len(group) = 1 THEN group[1]
  ELSE IF response.kind = "json" THEN response.val
  ELSE _fallback_merge_group(group, extraction_type)

\* --------------------------------------------------------------- extraction

SegmentMetadata(segment_data, full) ==
  IF full
    THEN Dict([order |-> Num(segment_data.order),
               segment_id |-> segment_data.segment_id,
               start_pos |-> Num(segment_data.start_pos),
               end_pos |-> Num(segment_data.end_pos)])
    ELSE Dict([order |-> Num(segment_data.order),
               segment_id |-> segment_data.segment_id])

\* x["_segment_metadata"] = meta
WithMetadata(x, meta) ==
  Dict([key \in (DOMAIN x.v) \cup {"_segment_metadata"} |->
         IF key = "_segment_metadata" THEN meta ELSE x.v[key]])

TagEntries(items, meta) ==
  [i \in 1..Len(items) |->
     IF IsDict(items[i]) THEN WithMetadata(items[i], meta) ELSE items[i]]

\* _parse_worldview_text / _parse_plot_text
ParseText(text) == Dict([raw_content |-> text, parsed |-> Bool(FALSE)])

\* The task run for one chunk; Null is Python's None.
process_single_segment(segment_data, extraction_type, prompt_template_name, response) ==
  IF prompt_template_name \notin {"worldview", "character", "plot"} THEN Null
  ELSE IF response.kind \in {"raise", "empty"} THEN Null
  ELSE IF response.kind = "json" THEN
    IF extraction_type = "characters" THEN
      IF IsList(response.val)
        THEN List(TagEntries(response.val.v, SegmentMetadata(segment_data, TRUE)))
        ELSE Null
    ELSE IF IsDict(response.val)
      THEN WithMetadata(response.val, SegmentMetadata(segment_data, TRUE))
      ELSE response.val
  ELSE IF extraction_type = "characters"
    THEN List(TagEntries(<<ParseText(response.val)>>, SegmentMetadata(segment_data, FALSE)))
  ELSE IF extraction_type \in {"worldview", "plot"}
    THEN WithMetadata(ParseText(response.val), SegmentMetadata(segment_data, FALSE))
  ELSE Null


\* ------------------------------------------------------------ input values

sX == Str(<<"X">>)
sY == Str(<<"Y">>)
sZ == Str(<<"Z">>)
nameA == Str(<<"A">>)
nameB == Str(<<"B">>)

WvX == Dict([setting |-> sX])
WvY == Dict([setting |-> sY])
WvTags == Dict([setting |-> sX, tags |-> List(<<sY>>)])
PlotA == Dict([acts |-> List(<<sX>>)])
PlotB == Dict([acts |-> List(<<sY, sX>>)])
PlotArc == Dict([arc |-> Dict([start |-> sX])])

CharA1 == Dict([name |-> nameA, age |-> Num(25)])
CharA2 == Dict([name |-> nameA, description |-> Str(<<"h">>)])
CharB == Dict([name |-> nameB])
CharB2 == Dict([name |-> nameB, age |-> Num(30)])
CharRaw == Dict([raw_content |-> Str(<<"z">>), parsed |-> Bool(FALSE)])

\* JSON values the completion service may answer an extraction prompt with
ExtractJson(extraction_type) ==
  CASE extraction_type = "worldview" -> {WvX, WvY, List(<<sX>>), Null}
    [] extraction_type = "plot" -> {PlotA, PlotB, Null}
    [] OTHER -> {List(<<CharA1>>), List(<<CharA2, CharB>>), List(<<Num(1)>>), WvX}

ExtractResponses(extraction_type) ==
  {LlmRaise, LlmEmpty, LlmText(<<"z">>)}
    \cup {LlmJson(x) : x \in ExtractJson(extraction_type)}

\* JSON values the completion service may answer a merge prompt with
MergeJson(extraction_type) ==
  CASE extraction_type = "worldview" -> {Dict([setting |-> sZ]), List(<<sX>>), Null}
    [] extraction_type = "plot" -> {PlotB, Num(1), Null}
    [] OTHER -> {List(<<CharA1, CharB>>), List(<<CharA1, CharA2>>), WvX, Null}

MergeResponses(extraction_type) ==
  {LlmRaise, LlmEmpty, LlmText(<<"z">>)}
    \cup {LlmJson(x) : x \in MergeJson(extraction_type)}

\* Results a direct caller may hand to _hierarchical_merge_results
ResultValues(extraction_type) ==
  CASE extraction_type = "worldview" -> {WvX, WvY, WvTags, List(<<sX>>)}
    [] extraction_type = "plot" -> {PlotA, PlotB, PlotArc}
    [] OTHER -> {List(<<CharA1>>), List(<<CharA2, CharB>>), List(<<Num(1)>>),
                 List(<<CharRaw>>)}

SeqsUpTo(S, n) == UNION {[1..k -> S] : k \in 0..n}

NoCall == [kind |-> "none", val |-> Null]

\* The chunks of a document of n one-character windows
Chunk(i) ==
  [text |-> Str(<<"t">>), order |-> i, start_pos |-> i - 1, end_pos |-> i,
   segment_id |-> SegId(i)]

\* ------------------------------------------------------------ segmentation

\* Text is a sequence of one-character strings; " " is the whitespace
\* character of the model's alphabet.
Whitespace == {" "}

RECURSIVE LStrip(_)
LStrip(s) == IF s # <<>> /\ Head(s) \in Whitespace THEN LStrip(Tail(s)) ELSE s

RECURSIVE RStrip(_)
RStrip(s) ==
  IF s # <<>> /\ s[Len(s)] \in Whitespace THEN RStrip(SubSeq(s, 1, Len(s) - 1)) ELSE s

\* str.strip()
strip(s) == RStrip(LStrip(s))

\* s[a:b] for 0 <= a <= b
Slice(s, a, b) == SubSeq(s, a + 1, IF b < Len(s) THEN b ELSE Len(s))

\* str.split(): the maximal runs of non-whitespace characters
RECURSIVE SplitWords(_, _, _)
SplitWords(s, word, acc) ==
  IF s = <<>> THEN (IF word = <<>> THEN acc ELSE Append(acc, word))
  ELSE IF Head(s) \in Whitespace
    THEN SplitWords(Tail(s), <<>>, IF word = <<>> THEN acc ELSE Append(acc, word))
  ELSE SplitWords(Tail(s), Append(word, Head(s)), acc)

\* ' '.join(words)
RECURSIVE JoinWords(_)
JoinWords(ws) ==
  IF ws = <<>> THEN <<>>
  ELSE IF Len(ws) = 1 THEN ws[1]
  ELSE ws[1] \o <<" ">> \o JoinWords(Tail(ws))

preprocess_text(content) ==
  IF content = <<>> \/ strip(content) = <<>> THEN <<>>
  ELSE JoinWords(SplitWords(content, <<>>, <<>>))

\* What one call of jieba.cut gives: it raises, or it yields the words of the
\* window, of which the code reads only the lengths.
CutRaises == [raises |-> TRUE, words |-> <<>>]
CutWords(lengths) == [raises |-> FALSE, words |-> lengths]

RECURSIVE SumSeq(_)
SumSeq(q) == IF q = <<>> THEN 0 ELSE Head(q) + SumSeq(Tail(q))

\* The ways a tokenizer may cut n characters into words
WordLengths(n) == {q \in UNION {[1..k -> 1..n] : k \in 1..n} : SumSeq(q) = n}

CutOutcomes(n) == {CutRaises} \cup {CutWords(q) : q \in WordLengths(n)}

\* SplitPoint stopping after the first word of the window
SplitPoint_firstWord(words, j, total_length, size) == words[1]

\* The loop over words: split_point is the length before the first word that
\* takes the total over segment_size * 0.9, and 0 when no word does.  The
\* comparison is made on integers (x > 0.9 * n  iff  10 * x > 9 * n).
RECURSIVE SplitPoint(_, _, _, _)
SplitPoint(words, j, total_length, segment_size) ==
  IF j > Len(words) THEN 0
  ELSE IF 10 * (total_length + words[j]) > 9 * segment_size THEN total_length
  ELSE SplitPoint(words, j + 1, total_length + words[j], segment_size)

\* SegmentRecord with the segment_id taken from the window position
SegmentRecord_byPosition(text, segment_count, start_pos, end_pos) ==
  [text |-> Str(text), order |-> segment_count, start_pos |-> start_pos,
   end_pos |-> end_pos, segment_id |-> SegId(start_pos + 1)]

\* The mapping appended for a retained chunk
SegmentRecord(text, segment_count, start_pos, end_pos) ==
  [text |-> Str(text), order |-> segment_count, start_pos |-> start_pos,
   end_pos |-> end_pos, segment_id |-> SegId(segment_count)]

\* `if segment.strip(): segment_count += 1; segments.append({...})`
KeepSegment(segments, segment, start_pos, end_pos) ==
  IF strip(segment) # <<>>
    THEN Append(segments, SegmentRecord(strip(segment), Len(segments) + 1,
                                        start_pos, end_pos))
    ELSE segments

\* The tokenizer loop from window start i on; cut[k] is what jieba.cut gives
\* for the k-th window (asked for every window but the last, up to the first
\* call that raises).  raised is TRUE when the tokenizer raised, and segments
\* is then the list as the failing call found it.
RECURSIVE SmartLoop(_, _, _, _, _)
SmartLoop(content, segment_size, i, segments, cut) ==
  IF i >= Len(content) THEN [raised |-> FALSE, segments |-> segments]
  ELSE
    LET window == Slice(content, i, i + segment_size)
        notLast == i + segment_size < Len(content)
    IN IF notLast /\ cut[(i \div segment_size) + 1].raises
         THEN [raised |-> TRUE, segments |-> segments]
       ELSE
         LET words == IF notLast THEN cut[(i \div segment_size) + 1].words ELSE <<>>
             split_point == IF Len(words) > 1
                              THEN SplitPoint(words, 1, 0, segment_size) ELSE 0
             segment == IF split_point > 0 THEN Slice(content, i, i + split_point)
                        ELSE window
             actual_end == IF split_point > 0 THEN i + split_point
                           ELSE i + Len(window)
         IN SmartLoop(content, segment_size, i + segment_size,
                      KeepSegment(segments, segment, i, actual_end), cut)

\* ExceptSegments going on with the chunks of the tokenizer loop
ExceptSegments_kept(segments) == segments

\* `segments = []; segment_count = 0` at the head of the except branch
ExceptSegments(segments) == <<>>

\* The loop of the except branch
RECURSIVE SimpleLoop(_, _, _, _)
SimpleLoop(content, segment_size, i, segments) ==
  IF i >= Len(content) THEN segments
  ELSE SimpleLoop(content, segment_size, i + segment_size,
                  KeepSegment(segments, Slice(content, i, i + segment_size), i,
                              IF i + segment_size < Len(content) THEN i + segment_size
                              ELSE Len(content)))

\* The windows the tokenizer is asked to cut
CutWindows(content, segment_size) ==
  IF strip(content) = <<>> THEN {}
  ELSE {k \in 1..Len(content) : k * segment_size < Len(content)}

CutChoices(content, segment_size) ==
  [CutWindows(content, segment_size) -> CutOutcomes(segment_size)]

split_text_into_segments(content, segment_size, cut) ==
  IF content = <<>> \/ strip(content) = <<>> THEN <<>>
  ELSE IF Len(content) <= segment_size
    THEN <<[text |-> Str(content), order |-> 1, start_pos |-> 0,
            end_pos |-> Len(content), segment_id |-> Str(<<"s", "e", "g", "_", "0", "0", "1">>)]>>
  ELSE LET smart == SmartLoop(content, segment_size, 0, <<>>, cut)
       IN IF smart.raised
            THEN SimpleLoop(content, segment_size, 0, ExceptSegments(smart.segments))
          ELSE smart.segments

\* ----------------------------------------------------- invoke_with_cleaning

\* What one call of llm_adapter.invoke gives: it raises, or it returns a
\* value (a string, or None).
AdapterRaises == [raises |-> TRUE, value |-> Null]
AdapterReturns(v) == [raises |-> FALSE, value |-> v]

\* The code fence markers; "~" is the backquote character of the model's
\* alphabet.
Fence == <<"~", "~", "~">>
FenceJson == <<"~", "~", "~", "j", "s", "o", "n">>

\* str.replace(pat, "")
RECURSIVE RemoveAll(_, _)
RemoveAll(s, pat) ==
  IF Len(s) < Len(pat) THEN s
  ELSE IF SubSeq(s, 1, Len(pat)) = pat
    THEN RemoveAll(SubSeq(s, Len(pat) + 1, Len(s)), pat)
  ELSE <<Head(s)>> \o RemoveAll(Tail(s), pat)

\* result.replace(FenceJson, "").replace(Fence, "").strip()
CleanFences(s) == strip(RemoveAll(RemoveAll(s, FenceJson), Fence))

\* The adapter answers of the model
AdapterAnswers ==
  {AdapterRaises,
   AdapterReturns(Null),
   AdapterReturns(Str(<<>>)),
   AdapterReturns(Str(<<" ">>)),
   AdapterReturns(Str(FenceJson \o <<" ">> \o Fence)),
   AdapterReturns(Str(<<"z">>)),
   AdapterReturns(Str(FenceJson \o <<"z", " ">> \o Fence))}

\* ---------------------------------------------------------------- state

VARIABLES
  pc,                       \* position of the running operation
  category,                 \* extraction_type of the running operation
  max_concurrent_requests,  \* KnowledgeParser.max_concurrent_requests
  segments,                 \* the chunks handed to the dispatcher
  submitted,                \* number of executor.submit calls made
  task,                     \* per chunk: "new", "queued", "running", "done"
  future,                   \* per chunk: the result of its finished task
  collected,                \* chunks whose future as_completed has yielded
  results_dict,             \* order -> non-None result, in insertion order
  segment_results,          \* the dispatcher's return value
  results,                  \* argument of _hierarchical_merge_results
  group_size,               \* argument of _hierarchical_merge_results
  current_results,
  next_level_results,
  level,
  gi,                       \* the loop variable i of the grouping loop
  group,                    \* the group of the last _ai_merge_group call
  response,                 \* what the completion service gave that call
  merged_result,            \* what that call returned
  merge_calls,              \* completion-service calls made by the merger
  ret,                      \* return value of _hierarchical_merge_results
  final,                    \* return value of extract_*
  sm_base, sm_new, sm_out,  \* a direct call of _merge_character_lists
  content,                  \* the text given to the operation that is called
  segment_size,             \* argument of split_text_into_segments
  cut,                      \* what jieba.cut gave, per window
  split_ret,                \* return value of split_text_into_segments
  max_retries,              \* argument of invoke_with_cleaning
  retry_count,
  invoke_result,            \* the local variable result of invoke_with_cleaning
  last_error,               \* TRUE when last_error holds an exception
  invocations,              \* the answers of llm_adapter.invoke so far
  sleeps,                   \* number of time.sleep(2) calls so far
  invoke_ret,               \* return value of invoke_with_cleaning
  segment_data,             \* argument of process_single_segment
  prompt_template_name,     \* prompt_template_name of the dispatcher call
  task_answer,              \* what invoke_with_cleaning gave the task
  task_ret,                 \* return value of process_single_segment
  api,                      \* the public operation that was called
  has_vector_store,         \* self.vector_store is set
  read_ok,                  \* read_file returned
  pool_result,              \* per category: what its pool task gave
  worldview, characters, plot_outline, relationships,
  file_ret,                 \* return value of the public operation
  completion_called,        \* the run has called invoke_with_cleaning
  search_called,            \* the run has called similarity_search
  saved,                    \* the artifact save_extracted_knowledge wrote
  fallback_serial,          \* the serial fallback was entered
  outcomes,                 \* per category: what extract_* can give on content
  any_extracted,            \* a dispatch call of the run returned a segment result
  pool,                     \* the three extract_* calls in the pool of parse_knowledge_from_file
  rel_answer,               \* analyze_relationships: what invoke_with_cleaning gave
  rel_requests,             \* analyze_relationships: invoke_with_cleaning calls made
  parser_filepath,          \* save_extracted_knowledge: self.filepath is set
  structured_data,          \* save_extracted_knowledge: the data passed in
  extracted_knowledge_file, \* the artifact extracted_knowledge.json, Null while absent
  current_structured_knowledge, \* the knowledge tab: the artifact as loaded
  stats,                    \* the knowledge tab: the statistics shown
  knowledge,                \* the StructuredKnowledge value in memory before saving
  knowledge_file,           \* the file save_to_file wrote (Null: none)
  loaded,                   \* what load_from_file returned (Null: None, or not called yet)
  partial_architecture_file,\* partial_architecture.json: the record of stage results (Null: absent)
  partial_data,             \* Novel_architecture_generate: the record in memory
  novel_architecture_file,  \* Novel_architecture.txt: the four results written (Null: absent)
  character_state_file,     \* character_state.txt (Null: absent)
  arch_step,                \* the stage Novel_architecture_generate is at, 1..5, then the final write
  arch_loaded,              \* the record the running invocation loaded
  arch_calls,               \* the completion calls of the running invocation: stage and result
  arch_invocations,         \* how many times Novel_architecture_generate was invoked
  requested,                \* KnowledgeParser(...): the max_concurrent_requests argument, NotGiven when it is left out
  wm_base,                  \* _merge_worldview_data: base_data as passed in
  wm_new,                   \* _merge_worldview_data: new_data as passed in
  wm_out,                   \* _merge_worldview_data: the value returned (Null before the call)
  base_after,               \* a structural merge: the base argument's value after the call
  new_after                 \* a structural merge: the incoming argument's value after the call

dispatchVars == <<max_concurrent_requests, segments, submitted, task, future,
                  collected, results_dict, segment_results>>
mergeVars == <<results, group_size, current_results, next_level_results, level,
               gi, group, response, merged_result, merge_calls, ret>>
structVars == <<sm_base, sm_new, sm_out>>
splitVars == <<segment_size, cut, split_ret>>
invokeVars == <<max_retries, retry_count, invoke_result, last_error, invocations,
                sleeps,
                invoke_ret>>
taskVars == <<segment_data, prompt_template_name, task_answer, task_ret>>
fileVars == <<api, has_vector_store, read_ok, pool_result, worldview, characters,
              plot_outline, relationships, file_ret, completion_called, search_called,
              saved, fallback_serial, outcomes, any_extracted>>
relVars == <<rel_answer, rel_requests>>
poolVars == <<pool>>
saveVars == <<parser_filepath, structured_data, extracted_knowledge_file,
              current_structured_knowledge, stats>>
ksVars == <<knowledge, knowledge_file, loaded>>
archVars == <<partial_architecture_file, partial_data, novel_architecture_file,
              character_state_file, arch_step, arch_loaded, arch_calls,
              arch_invocations>>
ctorVars == <<requested>>
mapVars == <<wm_base, wm_new, wm_out, base_after, new_after>>
extVars == <<poolVars, relVars, saveVars, ksVars, archVars, ctorVars, mapVars>>
extButPool == <<relVars, saveVars, ksVars, archVars, ctorVars, mapVars>>
extButRel == <<poolVars, saveVars, ksVars, archVars, ctorVars, mapVars>>
extButSave == <<poolVars, relVars, ksVars, archVars, ctorVars, mapVars>>
extButKs == <<poolVars, relVars, saveVars, archVars, ctorVars, mapVars>>
extButArch == <<poolVars, relVars, saveVars, ksVars, ctorVars, mapVars>>
extButCtor == <<poolVars, relVars, saveVars, ksVars, archVars, mapVars>>
extButMap == <<poolVars, relVars, saveVars, ksVars, archVars, ctorVars>>
unitVars == <<content, splitVars, invokeVars, taskVars, fileVars, extVars>>
vars == <<pc, category, dispatchVars, mergeVars, structVars, unitVars, final>>

DispatchIdle ==
  /\ max_concurrent_requests = 1
  /\ segments = <<>>
  /\ submitted = 0
  /\ task = <<>>
  /\ future = <<>>
  /\ collected = {}
  /\ results_dict = <<>>
  /\ segment_results = <<>>

MergeIdle ==
  /\ results = <<>>
  /\ group_size = DefaultGroupSize
  /\ current_results = <<>>
  /\ next_level_results = <<>>
  /\ level = 0
  /\ gi = 0
  /\ group = <<>>
  /\ response = NoCall
  /\ merged_result = Null
  /\ merge_calls = 0
  /\ ret = Null

StructIdle ==
  /\ sm_base = EmptyList
  /\ sm_new = EmptyList
  /\ sm_out = Null

SplitIdle ==
  /\ segment_size = 1
  /\ cut = <<>>
  /\ split_ret = <<>>

InvokeIdle ==
  /\ max_retries = 1
  /\ retry_count = 0
  /\ invoke_result = Str(<<>>)
  /\ last_error = FALSE
  /\ invocations = <<>>
  /\ sleeps = 0
  /\ invoke_ret = Null

TaskIdle ==
  /\ segment_data = Chunk(1)
  /\ prompt_template_name = "worldview"
  /\ task_answer = NoCall
  /\ task_ret = Null

FileIdle ==
  /\ api = "none"
  /\ has_vector_store = FALSE
  /\ read_ok = TRUE
  /\ pool_result = <<>>
  /\ worldview = Null
  /\ characters = Null
  /\ plot_outline = Null
  /\ relationships = Null
  /\ file_ret = Null
  /\ completion_called = FALSE
  /\ search_called = FALSE
  /\ saved = Null
  /\ fallback_serial = FALSE
  /\ outcomes = <<>>
  /\ any_extracted = FALSE

\* No pool of extract_* calls is running
PoolIdle == pool = <<>>

\* analyze_relationships has not been called
RelIdle ==
  /\ rel_answer = NoCall
  /\ rel_requests = 0

\* Nothing has been saved or loaded
SaveIdle ==
  /\ parser_filepath = FALSE
  /\ structured_data = Null
  /\ extracted_knowledge_file = Null
  /\ current_structured_knowledge = Null
  /\ stats = Null

\* No StructuredKnowledge value is saved or loaded
KsIdle ==
  /\ knowledge = Null
  /\ knowledge_file = Null
  /\ loaded = Null

\* Novel_architecture_generate was never invoked
ArchIdle ==
  /\ partial_architecture_file = Null
  /\ partial_data = Null
  /\ novel_architecture_file = Null
  /\ character_state_file = Null
  /\ arch_step = 0
  /\ arch_loaded = Null
  /\ arch_calls = <<>>
  /\ arch_invocations = 0

\* No KnowledgeParser was constructed with an argument recorded
CtorIdle ==
  /\ requested = 0

\* No structural merge of mappings was called
MapIdle ==
  /\ wm_base = EmptyDict
  /\ wm_new = EmptyDict
  /\ wm_out = Null
  /\ base_after = Null
  /\ new_after = Null

ExtIdle == PoolIdle /\ RelIdle /\ SaveIdle /\ KsIdle /\ ArchIdle /\ CtorIdle /\ MapIdle

ExtIdleButPool == RelIdle /\ SaveIdle /\ KsIdle /\ ArchIdle /\ CtorIdle /\ MapIdle

ExtIdleButRel == PoolIdle /\ SaveIdle /\ KsIdle /\ ArchIdle /\ CtorIdle /\ MapIdle

ExtIdleButSave == PoolIdle /\ RelIdle /\ KsIdle /\ ArchIdle /\ CtorIdle /\ MapIdle

ExtIdleButKs == PoolIdle /\ RelIdle /\ SaveIdle /\ ArchIdle /\ CtorIdle /\ MapIdle

ExtIdleButArch == PoolIdle /\ RelIdle /\ SaveIdle /\ KsIdle /\ CtorIdle /\ MapIdle

ExtIdleButCtor == PoolIdle /\ RelIdle /\ SaveIdle /\ KsIdle /\ ArchIdle /\ MapIdle

ExtIdleButMap == PoolIdle /\ RelIdle /\ SaveIdle /\ KsIdle /\ ArchIdle /\ CtorIdle


\* ------------------------------------------------- _process_segment_concurrently

\* prompt_template_name as extract_worldview / extract_characters /
\* extract_plot_outline pass it
TemplateOf(extraction_type) ==
  IF extraction_type = "characters" THEN "character" ELSE extraction_type

Running == {i \in DOMAIN task : task[i] = "running"}

\* executor.submit(process_single_segment, segment), in chunk order
Submit ==
  /\ pc = "dispatch"
  /\ submitted < Len(segments)
  /\ submitted' = submitted + 1
  /\ task' = [task EXCEPT ![submitted + 1] = "queued"]
  /\ UNCHANGED <<pc, category, max_concurrent_requests, segments, future, collected,
                 results_dict, segment_results, mergeVars, structVars, unitVars, final>>

\* WorkerFree for a pool that starts a thread for every task
WorkerFree_unbounded(running, max_workers) == TRUE

\* ThreadPoolExecutor(max_workers=self.max_concurrent_requests): a task is
\* started only while fewer than max_workers are running
WorkerFree(running, max_workers) == running < max_workers

\* A free worker takes the oldest queued task (the pool's queue is FIFO).
StartTask(i) ==
  /\ pc = "dispatch"
  /\ task[i] = "queued"
  /\ \A j \in 1..(i - 1) : task[j] # "queued"
  /\ WorkerFree(Cardinality(Running), max_concurrent_requests)
  /\ task' = [task EXCEPT ![i] = "running"]
  /\ UNCHANGED <<pc, category, max_concurrent_requests, segments, submitted, future,
                 collected, results_dict, segment_results, mergeVars, structVars, unitVars, final>>

\* process_single_segment returns; r is the completion service's answer.
FinishTask(i, r) ==
  /\ pc = "dispatch"
  /\ task[i] = "running"
  /\ task' = [task EXCEPT ![i] = "done"]
  /\ future' = [future EXCEPT
                  ![i] = process_single_segment(segments[i], category,
                                                TemplateOf(category), r)]
  /\ UNCHANGED <<pc, category, max_concurrent_requests, segments, submitted,
                 collected, results_dict, segment_results, mergeVars, structVars, unitVars, final>>

\* A Python dict keeps its keys in insertion order: results_dict is the
\* sequence of its items.  d[key] = value replaces the value of a key that is
\* present and appends the item otherwise.
DictKeys(d) == {d[k].key : k \in 1..Len(d)}

DictSet(d, key, value) ==
  IF key \in DictKeys(d)
    THEN [k \in 1..Len(d) |-> IF d[k].key = key THEN [key |-> key, value |-> value]
                               ELSE d[k]]
    ELSE Append(d, [key |-> key, value |-> value])

DictLookup(d, key) == (CHOOSE item \in {d[k] : k \in 1..Len(d)} : item.key = key).value

\* RecordResult without the None test
RecordResult_keepNone(d, segment_order, result) == DictSet(d, segment_order, result)

\* `if result is not None: results_dict[segment_order] = result`
RecordResult(d, segment_order, result) ==
  IF result # Null THEN DictSet(d, segment_order, result) ELSE d

\* Completed handing out a future as soon as its task was submitted
Completed_submitted(state) == state # "new"

\* as_completed yields a future once its task has finished
Completed(state) == state = "done"

\* One iteration of `for future in as_completed(future_to_segment)`
Collect(i) ==
  /\ pc = "dispatch"
  /\ submitted = Len(segments)
  /\ Completed(task[i])
  /\ i \notin collected
  /\ collected' = collected \cup {i}
  /\ results_dict' = RecordResult(results_dict, segments[i].order, future[i])
  /\ UNCHANGED <<pc, category, max_concurrent_requests, segments, submitted, task,
                 future, segment_results, mergeVars, structVars, unitVars, final>>

\* OrderedResults as list(results_dict.values()): completion order
OrderedResults_insertion(segs, by_order) ==
  [k \in 1..Len(by_order) |-> by_order[k].value]

\* `for segment in segments: if segment_order in results_dict: append(...)`
OrderedResults(segs, by_order) ==
  LET kept == SelectSeq(segs, LAMBDA sg : sg.order \in DictKeys(by_order))
  IN [k \in 1..Len(kept) |-> DictLookup(by_order, kept[k].order)]

\* The pool is left and the results are listed in chunk order.
BuildOutput ==
  /\ pc = "dispatch"
  /\ collected = DOMAIN segments
  /\ segment_results' = OrderedResults(segments, results_dict)
  /\ pc' = "dispatched"
  /\ UNCHANGED <<category, max_concurrent_requests, segments, submitted, task, future,
                 collected, results_dict, mergeVars, structVars, unitVars, final>>

\* ------------------------------------------------------------- extract_*

\* After the dispatcher returned: the empty value when nothing was extracted,
\* else the call of _hierarchical_merge_results with the default group_size.
ExtractMerge ==
  /\ pc = "dispatched"
  /\ IF segment_results = <<>>
       THEN /\ final' = EmptyValue(category)
            /\ pc' = "done"
            /\ UNCHANGED results
       ELSE /\ results' = segment_results
            /\ pc' = "merge_entry"
            /\ UNCHANGED final
  /\ UNCHANGED <<category, dispatchVars, group_size, current_results,
                 next_level_results, level, gi, group, response, merged_result,
                 merge_calls, ret, structVars, unitVars>>

\* extract_characters replaces a merged value that is not a list by [].
ExtractReturn ==
  /\ pc = "merge_returned"
  /\ final' = IF category = "characters" /\ ~IsList(ret) THEN EmptyList ELSE ret
  /\ pc' = "done"
  /\ UNCHANGED <<category, dispatchVars, mergeVars, structVars, unitVars>>

\* ------------------------------------------------- _hierarchical_merge_results

MergeEntry ==
  /\ pc = "merge_entry"
  /\ IF results = <<>>
       THEN /\ ret' = EmptyValue(category)
            /\ pc' = "merge_returned"
            /\ UNCHANGED <<level, current_results>>
     ELSE IF Len(results) = 1
       THEN /\ ret' = results[1]
            /\ pc' = "merge_returned"
            /\ UNCHANGED <<level, current_results>>
     ELSE /\ level' = 1
          /\ current_results' = results
          /\ pc' = "merge_while"
          /\ UNCHANGED ret
  /\ UNCHANGED <<category, dispatchVars, results, group_size, next_level_results, gi,
                 group, response, merged_result, merge_calls, structVars, unitVars, final>>

\* The test of `while len(current_results) > 1` and, when it fails, the return
MergeWhile ==
  /\ pc = "merge_while"
  /\ IF Len(current_results) > 1
       THEN /\ next_level_results' = <<>>
            /\ gi' = 0
            /\ pc' = "merge_for"
            /\ UNCHANGED ret
       ELSE /\ ret' = IF current_results # <<>> THEN current_results[1]
                      ELSE EmptyValue(category)
            /\ pc' = "merge_returned"
            /\ UNCHANGED <<next_level_results, gi>>
  /\ UNCHANGED <<category, dispatchVars, results, group_size, current_results, level,
                 group, response, merged_result, merge_calls, structVars, unitVars, final>>

GroupAt(cur, i, size) ==
  SubSeq(cur, i + 1, IF i + size < Len(cur) THEN i + size ELSE Len(cur))

\* One iteration of the grouping loop: the group is merged by _ai_merge_group
\* (r is the completion service's answer, asked for only when the group has
\* two or more elements); an exception leaves _hierarchical_merge_results.
MergeGroup(r) ==
  /\ pc = "merge_for"
  /\ gi < Len(current_results)
  /\ LET g == GroupAt(current_results, gi, group_size)
         called == Len(g) >= 2
         m == _ai_merge_group(g, category, r)
     IN /\ called \/ r = NoCall
        /\ ~called \/ r # NoCall
        /\ group' = g
        /\ response' = r
        /\ merged_result' = m
        /\ merge_calls' = IF called THEN merge_calls + 1 ELSE merge_calls
        /\ IF m = Raised
             THEN /\ pc' = "raised"
                  /\ UNCHANGED <<next_level_results, gi>>
             ELSE /\ next_level_results' =
                       IF m # Null THEN Append(next_level_results, m)
                       ELSE next_level_results
                  /\ gi' = gi + group_size
                  /\ UNCHANGED pc
  /\ UNCHANGED <<category, dispatchVars, results, group_size, current_results, level,
                 ret, structVars, unitVars, final>>

\* The grouping loop is exhausted: the next level becomes the current one.
MergeEndLevel ==
  /\ pc = "merge_for"
  /\ gi >= Len(current_results)
  /\ current_results' = next_level_results
  /\ level' = level + 1
  /\ pc' = "merge_while"
  /\ UNCHANGED <<category, dispatchVars, results, group_size, next_level_results, gi,
                 group, response, merged_result, merge_calls, ret, structVars, unitVars, final>>

MergeNext ==
  \/ MergeEntry
  \/ MergeWhile
  \/ \E r \in MergeResponses(category) \cup {NoCall} : MergeGroup(r)
  \/ MergeEndLevel

\* --------------------------------------------------- _merge_character_lists

CallMergeCharacterLists ==
  /\ pc = "struct_call"
  /\ sm_out' = _merge_character_lists(sm_base, sm_new)
  /\ base_after' = CharBaseAfter(sm_base, sm_new)
  /\ new_after' = CharNewAfter(sm_base, sm_new)
  /\ pc' = "struct_done"
  /\ UNCHANGED <<category, dispatchVars, mergeVars, sm_base, sm_new, content,
                 splitVars, invokeVars, taskVars, fileVars, extButMap, wm_base,
                 wm_new, wm_out, final>>

\* A call of _merge_worldview_data(base_data, new_data)
CallMergeWorldviewData ==
  /\ pc = "map_call"
  /\ wm_out' = _merge_worldview_data(wm_base, wm_new)
  /\ base_after' = WorldviewBaseAfter(wm_base, wm_new)
  /\ new_after' = WorldviewNewAfter(wm_base, wm_new)
  /\ pc' = "map_done"
  /\ UNCHANGED <<category, dispatchVars, mergeVars, structVars, content,
                 splitVars, invokeVars, taskVars, fileVars, extButMap, wm_base,
                 wm_new, final>>

\* ------------------------------------------------ split_text_into_segments

CallSplit(c) ==
  /\ pc = "split_call"
  /\ cut' = c
  /\ split_ret' = split_text_into_segments(content, segment_size, c)
  /\ pc' = "split_done"
  /\ UNCHANGED <<category, dispatchVars, mergeVars, structVars, content, segment_size,
                 invokeVars, taskVars, fileVars, extVars,
                 final>>

\* ----------------------------------------------------- invoke_with_cleaning

\* SleepsBeforeRetry without the test: a delay after every failed attempt
SleepsBeforeRetry_always(count, limit) == TRUE

\* `if retry_count < max_retries: time.sleep(2)`, after the increment
SleepsBeforeRetry(count, limit) == count < limit

\* ExhaustedReturn raising the last error
ExhaustedReturn_raise(res, failed) == IF failed THEN Raised ELSE res

\* The `return result` after the loop; last_error is only logged
ExhaustedReturn(res, failed) == res

\* One pass of the while loop; a is what llm_adapter.invoke gives.
InvokeAttempt(a) ==
  /\ pc = "invoke_loop"
  /\ retry_count < max_retries
  /\ invocations' = Append(invocations, a)
  /\ IF a.raises
       THEN /\ last_error' = TRUE
            /\ retry_count' = retry_count + 1
            /\ sleeps' = IF SleepsBeforeRetry(retry_count + 1, max_retries)
                           THEN sleeps + 1 ELSE sleeps
            /\ UNCHANGED <<invoke_result, invoke_ret, pc>>
       ELSE LET cleaned == IF Truthy(a.value) THEN Str(CleanFences(a.value.v))
                           ELSE a.value
            IN /\ invoke_result' = cleaned
               /\ IF Truthy(cleaned)
                    THEN /\ invoke_ret' = cleaned
                         /\ pc' = "invoke_returned"
                         /\ UNCHANGED <<retry_count, sleeps, last_error>>
                    ELSE /\ retry_count' = retry_count + 1
                         /\ sleeps' = IF SleepsBeforeRetry(retry_count + 1, max_retries)
                                        THEN sleeps + 1 ELSE sleeps
                         /\ UNCHANGED <<last_error, invoke_ret, pc>>
  /\ UNCHANGED <<category, dispatchVars, mergeVars, structVars, content, splitVars,
                 max_retries, taskVars, fileVars, extVars,
                 final>>

\* The loop test fails: the function returns result.
InvokeExhausted ==
  /\ pc = "invoke_loop"
  /\ retry_count >= max_retries
  /\ invoke_ret' = ExhaustedReturn(invoke_result, last_error)
  /\ pc' = "invoke_returned"
  /\ UNCHANGED <<category, dispatchVars, mergeVars, structVars, content, splitVars,
                 max_retries, retry_count, invoke_result, last_error, invocations, sleeps,
                 taskVars, fileVars, extVars,
                 final>>

\* --------------------------------------------------- process_single_segment

KnownTemplates == {"worldview", "character", "plot"}

\* A direct call of the task; the completion service is asked only when the
\* template is known.
CallProcessSingleSegment(r) ==
  /\ pc = "task_call"
  /\ IF prompt_template_name \in KnownTemplates THEN r # NoCall ELSE r = NoCall
  /\ task_answer' = r
  /\ task_ret' = process_single_segment(segment_data, category, prompt_template_name, r)
  /\ pc' = "task_done"
  /\ UNCHANGED <<category, dispatchVars, mergeVars, structVars, content, splitVars,
                 invokeVars, segment_data, prompt_template_name, fileVars, extVars,
                 final>>

\* ------------------------------------- extract_* as functions of the answers

\* The dispatcher's loop over as_completed, the futures taken in chunk order
RECURSIVE RecordAll(_, _, _, _)
RecordAll(d, segs, futures, i) ==
  IF i > Len(segs) THEN d
  ELSE RecordAll(RecordResult(d, segs[i].order, futures[i]), segs, futures, i + 1)

\* _process_segment_concurrently; answers[i] is what the completion service
\* gave the task of the i-th chunk.
process_segments(segs, extraction_type, template, answers) ==
  LET futures == [i \in 1..Len(segs) |->
                    process_single_segment(segs[i], extraction_type, template, answers[i])]
  IN OrderedResults(segs, RecordAll(<<>>, segs, futures, 1))

\* The grouping loop of one level with the default group_size; answers are
\* the completion service's answers to the merge calls still to come.
RECURSIVE MergeGroups(_, _, _, _, _, _)
MergeGroups(cur, i, next, answers, calls, extraction_type) ==
  IF i >= Len(cur) THEN [raised |-> FALSE, next |-> next, answers |-> answers, calls |-> calls]
  ELSE
    LET g == GroupAt(cur, i, DefaultGroupSize)
        called == Len(g) >= 2
        m == _ai_merge_group(g, extraction_type, IF called THEN Head(answers) ELSE NoCall)
        n == IF called THEN calls + 1 ELSE calls
    IN IF m = Raised
         THEN [raised |-> TRUE, next |-> <<>>, answers |-> answers, calls |-> n]
         ELSE MergeGroups(cur, i + DefaultGroupSize,
                          IF m # Null THEN Append(next, m) ELSE next,
                          IF called THEN Tail(answers) ELSE answers, n, extraction_type)

\* The while loop of _hierarchical_merge_results
RECURSIVE MergeLevels(_, _, _, _)
MergeLevels(cur, answers, calls, extraction_type) ==
  IF Len(cur) > 1
    THEN LET l == MergeGroups(cur, 0, <<>>, answers, calls, extraction_type)
         IN IF l.raised THEN [val |-> Raised, calls |-> l.calls]
            ELSE MergeLevels(l.next, l.answers, l.calls, extraction_type)
  ELSE [val |-> IF cur # <<>> THEN cur[1] ELSE EmptyValue(extraction_type),
        calls |-> calls]

\* _hierarchical_merge_results(results, merge_func, extraction_type); val is
\* the value returned (Raised for an exception), calls the merge calls made.
hierarchical_merge(rs, answers, extraction_type) ==
  IF rs = <<>> THEN [val |-> EmptyValue(extraction_type), calls |-> 0]
  ELSE IF Len(rs) = 1 THEN [val |-> rs[1], calls |-> 0]
  ELSE MergeLevels(rs, answers, 0, extraction_type)

\* The merge calls a list of n results can need
RECURSIVE MergeCallsFor(_)
MergeCallsFor(n) ==
  IF n <= 1 THEN 0
  ELSE LET groups == (n + DefaultGroupSize - 1) \div DefaultGroupSize
       IN groups + MergeCallsFor(groups)

\* Documents are cut with the default segment_size, which the model scales
\* to DocSegmentSize characters.
DocSegmentSize == 2

\* extract_worldview / extract_characters / extract_plot_outline:
\*   val       the value returned, Raised for an exception
\*   calls     the invoke_with_cleaning calls made
\*   tasks     the extraction tasks run
\*   extracted the segment results the dispatcher returned
extract_category(extraction_type, text, cutc, answers, merge_answers) ==
  LET processed_content == preprocess_text(text) IN
  IF processed_content = <<>>
    THEN [val |-> EmptyValue(extraction_type), calls |-> 0, tasks |-> 0, extracted |-> 0]
  ELSE
    LET segs == split_text_into_segments(processed_content, DocSegmentSize, cutc)
        rs == process_segments(segs, extraction_type, TemplateOf(extraction_type), answers)
    IN IF rs = <<>>
         THEN [val |-> EmptyValue(extraction_type), calls |-> Len(segs),
               tasks |-> Len(segs), extracted |-> 0]
       ELSE
         LET merged == hierarchical_merge(rs, merge_answers, extraction_type)
         IN [val |-> IF merged.val = Raised THEN Raised
                     ELSE IF extraction_type = "characters" /\ ~IsList(merged.val)
                       THEN EmptyList
                     ELSE merged.val,
             calls |-> Len(segs) + merged.calls,
             tasks |-> Len(segs),
             extracted |-> Len(rs)]

\* The inputs of one run of extract_*: the tokenizer's outcomes, the answers
\* to the extraction prompts and the answers to the merge prompts
ExtractRuns(extraction_type, text) ==
  LET processed_content == preprocess_text(text)
  IN {[cutc |-> c, answers |-> a, merge_answers |-> m] :
        c \in CutChoices(processed_content, DocSegmentSize),
        a \in [1..((Len(processed_content) + DocSegmentSize - 1) \div DocSegmentSize)
                 -> ExtractResponses(extraction_type)],
        m \in [1..MergeCallsFor((Len(processed_content) + DocSegmentSize - 1)
                                  \div DocSegmentSize)
                 -> MergeResponses(extraction_type)]}

\* The documents of the model: empty, blank, shorter than a window (with
\* whitespace around the text), and one character longer than a window.
LongDocument == [i \in 1..(DocSegmentSize + 1) |-> "a"]

DocTexts == {<<>>, <<" ">>, <<"a">>, <<" ", "a", " ">>, LongDocument}

\* What a run of extract_* on a document can give, over every outcome of the
\* tokenizer and every answer of the completion service
ExtractOutcomes(c, text) ==
  {extract_category(c, text, run.cutc, run.answers, run.merge_answers) :
     run \in ExtractRuns(c, text)}

\* ------------------------------------------------------ generate_structure

\* len(x) is defined
HasLen(x) == x.t \in {"str", "list", "dict"}

\* len(x)
PyLen(x) == IF x.t = "dict" THEN Cardinality(DOMAIN x.v) ELSE Len(x.v)

\* `relationships or {}`
OrEmptyDict(x) == IF Truthy(x) THEN x ELSE EmptyDict

generate_structure(wv, chars, plot, rels) ==
  IF \/ ~IsDict(wv)
     \/ ~HasLen(Get(wv, "elements", EmptyList))
     \/ ~HasLen(chars)
     \/ ~IsDict(plot)
     \/ ~HasLen(Get(plot, "plot_points", EmptyList))
     \/ Truthy(rels) /\ ~IsDict(rels)
     \/ Truthy(rels) /\ ~HasLen(Get(rels, "relationships", EmptyList))
    THEN Raised
  ELSE
    Dict([metadata |-> Dict([extracted_time |-> Str(<<>>),
                             source_files |-> EmptyList,
                             extraction_version |-> Str(<<"1", ".", "0">>)]),
          worldview |-> wv,
          characters |-> chars,
          plot_outline |-> plot,
          relationships |-> OrEmptyDict(rels),
          statistics |->
            Dict([worldview_elements |-> Num(PyLen(Get(wv, "elements", EmptyList))),
                  character_count |-> Num(PyLen(chars)),
                  plot_points |-> Num(PyLen(Get(plot, "plot_points", EmptyList))),
                  relationship_count |->
                    Num(IF Truthy(rels)
                          THEN PyLen(Get(rels, "relationships", EmptyList)) ELSE 0)])])

\* ------------------------------------------------ parse_knowledge_from_file

ExtractApis == {"extract_worldview", "extract_characters", "extract_plot_outline"}

ApiCategory(name) ==
  CASE name = "extract_worldview" -> "worldview"
    [] name = "extract_characters" -> "characters"
    [] OTHER -> "plot"

\* similarity_search is called once per extraction task when a vector store
\* is loaded
SearchesOf(tasks) == IF has_vector_store THEN tasks ELSE 0

\* The flags of the run after a run of extract_* that gave e
CalledAfter(e) == completion_called \/ e.calls > 0

SearchedAfter(e) == search_called \/ SearchesOf(e.tasks) > 0

ExtractedAfter(e) == any_extracted \/ e.extracted > 0

\* IsBlankDocument testing only for the empty string
IsBlankDocument_emptyOnly(text) == text = <<>>

\* `if not content.strip()`
IsBlankDocument(text) == strip(text) = <<>>

\* OuterExcept letting the exception through
OuterExcept_reraise(outcome) == outcome

\* `except Exception: ... return None` around the whole function
OuterExcept(outcome) == IF outcome = Raised THEN Null ELSE outcome

\* A direct call of extract_worldview, extract_characters or
\* extract_plot_outline on content; e is what the run gives.
CallExtract(e) ==
  /\ pc = "extract_call"
  /\ file_ret' = e.val
  /\ completion_called' = CalledAfter(e)
  /\ search_called' = SearchedAfter(e)
  /\ any_extracted' = ExtractedAfter(e)
  /\ pc' = IF e.val = Raised THEN "file_raised" ELSE "file_returned"
  /\ UNCHANGED <<category, dispatchVars, mergeVars, structVars, content, splitVars,
                 invokeVars, taskVars, api, has_vector_store, read_ok, pool_result,
                 worldview, characters, plot_outline, relationships, saved,
                 fallback_serial, outcomes, extVars,
                 final>>

\* read_file, the test for an empty document and the construction of the parser
ReadFile(ok) ==
  /\ pc = "file_entry"
  /\ read_ok' = ok
  /\ IF ~ok
       THEN /\ file_ret' = OuterExcept(Raised)
            /\ pc' = IF OuterExcept(Raised) = Raised THEN "file_raised" ELSE "file_returned"
     ELSE IF IsBlankDocument(content)
       THEN /\ file_ret' = Null
            /\ pc' = "file_returned"
     ELSE /\ pc' = "file_pool"
          /\ UNCHANGED file_ret
  /\ UNCHANGED <<category, dispatchVars, mergeVars, structVars, content, splitVars,
                 invokeVars, taskVars, api, has_vector_store, pool_result, worldview,
                 characters, plot_outline, relationships, completion_called,
                 search_called, saved, fallback_serial, outcomes, any_extracted, extVars,
                 final>>

\* One of the three tasks of the pool runs extract_* to its end; e is what
\* the run gives.
PoolTask(c, e) ==
  /\ pc = "file_pool"
  /\ c \notin DOMAIN pool_result
  /\ pool_result' = [x \in (DOMAIN pool_result) \cup {c} |->
                       IF x = c THEN e.val ELSE pool_result[x]]
  /\ completion_called' = CalledAfter(e)
  /\ search_called' = SearchedAfter(e)
  /\ any_extracted' = ExtractedAfter(e)
  /\ UNCHANGED <<pc, category, dispatchVars, mergeVars, structVars, content, splitVars,
                 invokeVars, taskVars, api, has_vector_store, read_ok, worldview,
                 characters, plot_outline, relationships, file_ret, saved,
                 fallback_serial, outcomes, extVars,
                 final>>

\* The three future.result() calls, in the order worldview, characters, plot;
\* the first that raises leads to the serial fallback.
JoinPool ==
  /\ pc = "file_pool"
  /\ DOMAIN pool_result = Categories
  /\ LET wvOk == pool_result["worldview"] # Raised
         chOk == wvOk /\ pool_result["characters"] # Raised
         plOk == chOk /\ pool_result["plot"] # Raised
     IN /\ worldview' = IF wvOk THEN pool_result["worldview"] ELSE worldview
        /\ characters' = IF chOk THEN pool_result["characters"] ELSE characters
        /\ plot_outline' = IF plOk THEN pool_result["plot"] ELSE plot_outline
        /\ fallback_serial' = ~plOk
        /\ pc' = IF plOk THEN "file_relationships" ELSE "serial_worldview"
  /\ pool_result' = <<>>
  /\ UNCHANGED <<category, dispatchVars, mergeVars, structVars, content, splitVars,
                 invokeVars, taskVars, api, has_vector_store, read_ok,
                 relationships, file_ret, completion_called, search_called, saved,
                 outcomes, any_extracted, extVars,
                 final>>

SerialPc(c) ==
  CASE c = "worldview" -> "serial_worldview"
    [] c = "characters" -> "serial_characters"
    [] OTHER -> "serial_plot"

AfterSerial(c) ==
  CASE c = "worldview" -> "serial_characters"
    [] c = "characters" -> "serial_plot"
    [] OTHER -> "file_relationships"

\* One call of the serial fallback; an exception reaches the outer handler.
SerialTask(c, e) ==
  /\ pc = SerialPc(c)
  /\ completion_called' = CalledAfter(e)
  /\ search_called' = SearchedAfter(e)
  /\ any_extracted' = ExtractedAfter(e)
  /\ IF e.val = Raised
       THEN /\ file_ret' = OuterExcept(Raised)
            /\ pc' = IF OuterExcept(Raised) = Raised THEN "file_raised"
                     ELSE "file_returned"
            /\ UNCHANGED <<worldview, characters, plot_outline>>
       ELSE /\ worldview' = IF c = "worldview" THEN e.val ELSE worldview
            /\ characters' = IF c = "characters" THEN e.val ELSE characters
            /\ plot_outline' = IF c = "plot" THEN e.val ELSE plot_outline
            /\ pc' = AfterSerial(c)
            /\ UNCHANGED file_ret
  /\ UNCHANGED <<category, dispatchVars, mergeVars, structVars, content, splitVars,
                 invokeVars, taskVars, api, has_vector_store, read_ok, pool_result,
                 relationships, saved, fallback_serial, outcomes, extVars,
                 final>>

\* JSON values the completion service may answer the relationship prompt with
RelationshipJson ==
  {Dict([relationships |-> List(<<sX>>)]), Dict([relationships |-> Num(1)]),
   List(<<sX>>), Null}

RelationshipResponses ==
  {LlmRaise, LlmEmpty, LlmText(<<"z">>)} \cup {LlmJson(x) : x \in RelationshipJson}

\* analyze_relationships(characters); r is what invoke_with_cleaning gave, and
\* no call is made for an empty character list.
analyze_relationships(chars, r) ==
  IF ~Truthy(chars) THEN EmptyDict
  ELSE IF r.kind = "json" THEN r.val
  ELSE EmptyDict

\* RelationshipRequested without the test for an empty list
RelationshipRequested_always(chars) == TRUE

\* `if not characters: return {}` comes before the call of invoke_with_cleaning
RelationshipRequested(chars) == Truthy(chars)

\* The last result of invoke_with_cleaning when the adapter returned None
LlmNone == [kind |-> "null", val |-> Null]

\* A direct call of analyze_relationships(characters)
CallAnalyzeRelationships(r) ==
  /\ pc = "rel_call"
  /\ IF RelationshipRequested(characters) THEN r # NoCall ELSE r = NoCall
  /\ rel_answer' = r
  /\ rel_requests' = IF r # NoCall THEN rel_requests + 1 ELSE rel_requests
  /\ relationships' = analyze_relationships(characters, r)
  /\ pc' = "rel_returned"
  /\ UNCHANGED <<category, dispatchVars, mergeVars, structVars, content, splitVars,
                 invokeVars, taskVars, api, has_vector_store, read_ok, pool_result,
                 worldview, characters, plot_outline, file_ret, completion_called,
                 search_called, saved, fallback_serial, outcomes, any_extracted,
                 extButRel, final>>

AnalyzeRelationships(r) ==
  /\ pc = "file_relationships"
  /\ IF RelationshipRequested(characters) THEN r # NoCall ELSE r = NoCall
  /\ relationships' = analyze_relationships(characters, r)
  /\ completion_called' = (completion_called \/ Truthy(characters))
  /\ pc' = "file_structure"
  /\ UNCHANGED <<category, dispatchVars, mergeVars, structVars, content, splitVars,
                 invokeVars, taskVars, api, has_vector_store, read_ok, pool_result,
                 worldview, characters, plot_outline, file_ret, search_called, saved,
                 fallback_serial, outcomes, any_extracted, extVars,
                 final>>

file_path == Str(<<"f">>)

\* structured_data["metadata"]["source_files"] = [file_path] and
\* structured_data["metadata"]["extracted_time"] = ""
WithSourceFile(structure) ==
  Dict([key \in DOMAIN structure.v |->
         IF key = "metadata"
           THEN Dict([k \in DOMAIN structure.v["metadata"].v |->
                        CASE k = "source_files" -> List(<<file_path>>)
                          [] k = "extracted_time" -> Str(<<>>)
                          [] OTHER -> structure.v["metadata"].v[k]])
           ELSE structure.v[key]])

\* generate_structure, the save and the return; save_ok is whether the
\* artifact could be written.  The book review that follows the save works on
\* an adapter of its own and changes nothing of the run's result.
FinishFile(save_ok) ==
  /\ pc = "file_structure"
  /\ LET structure == generate_structure(worldview, characters, plot_outline,
                                         relationships)
     IN IF structure = Raised
          THEN /\ file_ret' = OuterExcept(Raised)
               /\ pc' = IF OuterExcept(Raised) = Raised THEN "file_raised"
                        ELSE "file_returned"
               /\ UNCHANGED saved
          ELSE /\ file_ret' = WithSourceFile(structure)
               /\ saved' = IF save_ok THEN WithSourceFile(structure) ELSE saved
               /\ pc' = "file_returned"
  /\ UNCHANGED <<category, dispatchVars, mergeVars, structVars, content, splitVars,
                 invokeVars, taskVars, api, has_vector_store, read_ok, pool_result,
                 worldview, characters, plot_outline, relationships,
                 completion_called, search_called, fallback_serial, outcomes,
                 any_extracted, extVars,
                 final>>

\* ------------------------------- the pool of parse_knowledge_from_file

\* The three extract_* calls submitted to ThreadPoolExecutor(max_workers=3),
\* each followed through its stages:
\*   waiting     submitted, not started
\*   extracting  inside _process_segment_concurrently; queued tasks wait for a
\*               worker of the call's own pool, running tasks have their
\*               completion call in flight
\*   merging     inside _hierarchical_merge_results, between two groups
\*   merge_call  inside _ai_merge_group, the merge completion call in flight
\*   done        extract_* has returned or raised
\* results counts the non-None task results, cur / gi / next are
\* len(current_results), the loop index i and len(next_level_results).
PoolWorker(stage, queued, running, res, cur, i, next) ==
  [stage |-> stage, queued |-> queued, running |-> running, results |-> res,
   cur |-> cur, gi |-> i, next |-> next]

WorkerWaiting == PoolWorker("waiting", 0, 0, 0, 0, 0, 0)

WorkerDone == PoolWorker("done", 0, 0, 0, 0, 0, 0)

SetWorker(c, w) == pool' = [pool EXCEPT ![c] = w]

PoolUnchanged ==
  UNCHANGED <<pc, category, dispatchVars, mergeVars, structVars, content, splitVars,
              invokeVars, taskVars, fileVars, extButPool, final>>

\* A worker of the outer pool starts extract_*: the text is cut and one task
\* per chunk is submitted to the call's own pool
PoolStart(c) ==
  /\ pc = "pool_running"
  /\ pool[c].stage = "waiting"
  /\ SetWorker(c, PoolWorker("extracting", Len(segments), 0, 0, 0, 0, 0))
  /\ PoolUnchanged

\* A free worker of the call's own pool starts process_single_segment
PoolTaskStart(c) ==
  /\ pc = "pool_running"
  /\ pool[c].stage = "extracting"
  /\ pool[c].queued > 0
  /\ WorkerFree(pool[c].running, max_concurrent_requests)
  /\ SetWorker(c, [pool[c] EXCEPT !.queued = @ - 1, !.running = @ + 1])
  /\ PoolUnchanged

\* process_single_segment returns, with a result (kept) or with None
PoolTaskEnd(c, kept) ==
  /\ pc = "pool_running"
  /\ pool[c].stage = "extracting"
  /\ pool[c].running > 0
  /\ SetWorker(c, [pool[c] EXCEPT !.running = @ - 1,
                                  !.results = IF kept THEN @ + 1 ELSE @])
  /\ PoolUnchanged

\* The dispatcher returns; extract_* returns at once with no result, and
\* _hierarchical_merge_results returns at once with one
PoolDispatched(c) ==
  /\ pc = "pool_running"
  /\ pool[c].stage = "extracting"
  /\ pool[c].queued = 0
  /\ pool[c].running = 0
  /\ SetWorker(c, IF pool[c].results <= 1 THEN WorkerDone
                  ELSE PoolWorker("merging", 0, 0, pool[c].results,
                                  pool[c].results, 0, 0))
  /\ PoolUnchanged

\* The next step of the loops of _hierarchical_merge_results: the end of a
\* level, a group of one (returned as it is), or the merge call of a group
PoolMergeStep(c) ==
  /\ pc = "pool_running"
  /\ pool[c].stage = "merging"
  /\ LET w == pool[c] IN
     IF w.gi >= w.cur
       THEN SetWorker(c, IF w.next <= 1 THEN WorkerDone
                         ELSE [w EXCEPT !.cur = w.next, !.gi = 0, !.next = 0])
     ELSE IF w.cur - w.gi = 1
       THEN SetWorker(c, [w EXCEPT !.gi = @ + DefaultGroupSize, !.next = @ + 1])
     ELSE SetWorker(c, [w EXCEPT !.stage = "merge_call"])
  /\ PoolUnchanged

MergeCallOutcomes == {"merged", "none", "raised"}

\* _ai_merge_group returns a merged value or None, or the fallback merge raises
PoolMergeReturn(c, outcome) ==
  /\ pc = "pool_running"
  /\ pool[c].stage = "merge_call"
  /\ SetWorker(c, IF outcome = "raised" THEN WorkerDone
                  ELSE [pool[c] EXCEPT !.stage = "merging",
                                       !.gi = @ + DefaultGroupSize,
                                       !.next = IF outcome = "merged" THEN @ + 1 ELSE @])
  /\ PoolUnchanged

\* The with block of the outer pool is left when the three calls are done
PoolJoin ==
  /\ pc = "pool_running"
  /\ \A c \in Categories : pool[c].stage = "done"
  /\ pc' = "pool_joined"
  /\ UNCHANGED <<category, dispatchVars, mergeVars, structVars, unitVars, final>>

\* ------------------------------- save_extracted_knowledge and its readers

SaveUnchanged ==
  UNCHANGED <<category, dispatchVars, mergeVars, structVars, content, splitVars,
              invokeVars, taskVars, fileVars, extButSave, final>>

\* save_extracted_knowledge(structured_data): json.dump of the data as it was
\* passed in; write_ok is whether the file could be written.
SaveExtractedKnowledge(write_ok) ==
  /\ pc = "save_call"
  /\ extracted_knowledge_file' =
       IF parser_filepath /\ write_ok THEN structured_data ELSE extracted_knowledge_file
  /\ pc' = "save_done"
  /\ UNCHANGED <<parser_filepath, structured_data, current_structured_knowledge, stats>>
  /\ SaveUnchanged

\* load_existing_knowledge of the knowledge tab, with display_parsing_results:
\* the artifact is read and its statistics are shown
LoadExistingKnowledge ==
  /\ pc = "save_done"
  /\ IF extracted_knowledge_file = Null
       THEN UNCHANGED <<current_structured_knowledge, stats>>
       ELSE /\ current_structured_knowledge' = extracted_knowledge_file
            /\ stats' = IF Truthy(extracted_knowledge_file)
                          THEN Get(extracted_knowledge_file, "statistics", EmptyDict)
                          ELSE stats
  /\ pc' = "ui_loaded"
  /\ UNCHANGED <<parser_filepath, structured_data, extracted_knowledge_file>>
  /\ SaveUnchanged

\* ------------------------------------- knowledge_structures.py: dataclasses

\* An instance of a dataclass: its class and its fields
Obj(cls, f) == [t |-> cls, v |-> f]

DataClasses ==
  {"StructuredKnowledge", "KnowledgeMetadata", "WorldView", "WorldViewElement",
   "Character", "PlotOutline", "PlotLine", "PlotPoint", "RelationshipNetwork"}

\* dataclasses.asdict: instances become dicts, recursively through lists
RECURSIVE asdict(_)
asdict(x) ==
  IF x.t \in DataClasses THEN Dict([k \in DOMAIN x.v |-> asdict(x.v[k])])
  ELSE IF x.t = "list" THEN List([i \in 1..Len(x.v) |-> asdict(x.v[i])])
  ELSE IF x.t = "dict" THEN Dict([k \in DOMAIN x.v |-> asdict(x.v[k])])
  ELSE x

\* The list fields of WorldView, in the order get_all_elements reads them
WorldViewLists ==
  <<"geography", "history", "technology", "society", "culture", "magic_system",
    "politics", "economy", "other_elements">>

RECURSIVE ExtendAll(_, _, _)
ExtendAll(wv, i, acc) ==
  IF i > Len(WorldViewLists) THEN acc
  ELSE ExtendAll(wv, i + 1, acc \o wv.v[WorldViewLists[i]].v)

\* WorldView.get_all_elements
get_all_elements(wv) == ExtendAll(wv, 1, <<>>)

\* the loop of get_all_plot_points: storyline.plot_points is an attribute
\* access, which a dict does not have
RECURSIVE ExtendPlotPoints(_, _, _)
ExtendPlotPoints(storylines, i, all_points) ==
  IF i > Len(storylines) THEN all_points
  ELSE IF storylines[i].t # "PlotLine" THEN Raised
  ELSE ExtendPlotPoints(storylines, i + 1,
                        all_points \o storylines[i].v["plot_points"].v)

\* PlotOutline.get_all_plot_points: the list, or Raised
get_all_plot_points(po) ==
  ExtendPlotPoints(po.v["main_plot_lines"].v \o po.v["sub_plot_lines"].v, 1,
                   po.v["key_plot_points"].v)

\* The reconstruction of load_from_file from the parsed JSON: cls(**data) on
\* the top-level classes and on every element of characters
load_from_data(data) ==
  Obj("StructuredKnowledge",
      [metadata |-> Obj("KnowledgeMetadata", data.v["metadata"].v),
       worldview |-> Obj("WorldView", data.v["worldview"].v),
       characters |->
         List([i \in 1..Len(data.v["characters"].v) |->
                Obj("Character", data.v["characters"].v[i].v)]),
       plot_outline |-> Obj("PlotOutline", data.v["plot_outline"].v),
       relationship_network |->
         Obj("RelationshipNetwork", data.v["relationship_network"].v)])

KsUnchanged ==
  UNCHANGED <<category, dispatchVars, mergeVars, structVars, content, splitVars,
              invokeVars, taskVars, fileVars, extButKs, final>>

\* StructuredKnowledge.save_to_file: to_json of asdict(self); write_ok is
\* whether the file could be written
SaveToFile(write_ok) ==
  /\ pc = "ks_save"
  /\ knowledge_file' = IF write_ok THEN asdict(knowledge) ELSE knowledge_file
  /\ pc' = "ks_saved"
  /\ UNCHANGED <<knowledge, loaded>>
  /\ KsUnchanged

\* StructuredKnowledge.load_from_file: None when the file cannot be read
LoadFromFile ==
  /\ pc = "ks_saved"
  /\ loaded' = IF knowledge_file = Null THEN Null ELSE load_from_data(knowledge_file)
  /\ pc' = "ks_loaded"
  /\ UNCHANGED <<knowledge, knowledge_file>>
  /\ KsUnchanged

\* ---------------------------------- architecture.py: Novel_architecture_generate

\* How many invocations of Novel_architecture_generate a behaviour holds
MaxInvocations == 3

\* The keys of the record, in the order the stages are run
Stages ==
  <<"core_seed_result", "character_dynamics_result", "character_state_result",
    "world_building_result", "plot_arch_result">>

\* The step after the last stage: the final file is written
FinalStep == Len(Stages) + 1

\* The keys of partial_data a stage's prompt reads
StageReads(i) ==
  CASE i = 1 -> {}
    [] i = 2 -> {"core_seed_result"}
    [] i = 3 -> {"character_dynamics_result"}
    [] i = 4 -> {"core_seed_result"}
    [] i = 5 -> {"core_seed_result", "character_dynamics_result",
                 "world_building_result"}

\* The keys the final content reads
FinalReads ==
  {"core_seed_result", "character_dynamics_result", "world_building_result",
   "plot_arch_result"}

\* The condition guarding a stage: its result is not in partial_data (and,
\* for the character state, the character dynamics are)
StageNeeded_always(i, data) == TRUE
StageNeeded(i, data) ==
  IF i = 3
    THEN "character_dynamics_result" \in DOMAIN data.v
         /\ "character_state_result" \notin DOMAIN data.v
    ELSE Stages[i] \notin DOMAIN data.v

\* "if not result.strip()": the stage failed
StageFailed_never(result) == FALSE
StageFailed(result) == strip(result.v) = <<>>

\* partial_data[key] = result
Recorded(data, key, result) ==
  Dict([k \in DOMAIN data.v \cup {key} |-> IF k = key THEN result ELSE data.v[k]])

\* What invoke_with_cleaning returns to a stage: a cleaned non-empty text,
\* the empty string after its retries, or None when the adapter's last
\* answer was None
StageResults == {sX, sY, Str(<<>>), Null}

\* load_partial_architecture_data: {} when the file does not exist
load_partial_architecture_data ==
  IF partial_architecture_file = Null THEN EmptyDict ELSE partial_architecture_file

ArchUnchanged ==
  UNCHANGED <<category, dispatchVars, mergeVars, structVars, content, splitVars,
              invokeVars, taskVars, fileVars, extButArch, final>>

ArchReturned == pc \in {"arch_idle", "arch_stopped", "arch_raised", "arch_done"}

\* Novel_architecture_generate is invoked: the record is loaded
ArchStart ==
  /\ ArchReturned
  /\ arch_invocations < MaxInvocations
  /\ arch_invocations' = arch_invocations + 1
  /\ partial_data' = load_partial_architecture_data
  /\ arch_loaded' = load_partial_architecture_data
  /\ arch_calls' = <<>>
  /\ arch_step' = 1
  /\ pc' = "arch_run"
  /\ UNCHANGED <<partial_architecture_file, novel_architecture_file,
                 character_state_file>>
  /\ ArchUnchanged

\* A stage whose condition is false: "already done. Skipping..."
ArchStageSkip ==
  /\ pc = "arch_run"
  /\ arch_step \in 1..Len(Stages)
  /\ ~StageNeeded(arch_step, partial_data)
  /\ arch_step' = arch_step + 1
  /\ UNCHANGED <<pc, partial_architecture_file, partial_data,
                 novel_architecture_file, character_state_file, arch_loaded,
                 arch_calls, arch_invocations>>
  /\ ArchUnchanged

\* A stage that runs: the prompt is built from partial_data (KeyError when a
\* key is missing), invoke_with_cleaning returns result; a failed stage saves
\* the record and returns, otherwise the result is recorded and saved
ArchStageCall(result) ==
  /\ pc = "arch_run"
  /\ arch_step \in 1..Len(Stages)
  /\ StageNeeded(arch_step, partial_data)
  /\ IF ~(StageReads(arch_step) \subseteq DOMAIN partial_data.v)
       THEN /\ pc' = "arch_raised"
            /\ UNCHANGED <<partial_architecture_file, partial_data,
                           character_state_file, arch_step, arch_calls>>
       ELSE /\ arch_calls' =
                 Append(arch_calls, [stage |-> Stages[arch_step], result |-> result])
            /\ IF result = Null
                 THEN \* None.strip() raises AttributeError
                      /\ pc' = "arch_raised"
                      /\ UNCHANGED <<partial_architecture_file, partial_data,
                                     character_state_file, arch_step>>
                 ELSE IF StageFailed(result)
                 THEN /\ partial_architecture_file' = partial_data
                      /\ pc' = "arch_stopped"
                      /\ UNCHANGED <<partial_data, character_state_file, arch_step>>
                 ELSE /\ partial_data' = Recorded(partial_data, Stages[arch_step], result)
                      /\ partial_architecture_file' = partial_data'
                      /\ character_state_file' =
                           IF arch_step = 3 THEN result ELSE character_state_file
                      /\ arch_step' = arch_step + 1
                      /\ pc' = "arch_run"
  /\ UNCHANGED <<novel_architecture_file, arch_loaded, arch_invocations>>
  /\ ArchUnchanged

\* After the stages: Novel_architecture.txt is written from the four results
\* and partial_architecture.json is removed
ArchFinish ==
  /\ pc = "arch_run"
  /\ arch_step = FinalStep
  /\ IF ~(FinalReads \subseteq DOMAIN partial_data.v)
       THEN /\ pc' = "arch_raised"
            /\ UNCHANGED <<partial_architecture_file, novel_architecture_file>>
       ELSE /\ novel_architecture_file' =
                 List(<<partial_data.v["core_seed_result"],
                        partial_data.v["character_dynamics_result"],
                        partial_data.v["world_building_result"],
                        partial_data.v["plot_arch_result"]>>)
            /\ partial_architecture_file' = Null
            /\ pc' = "arch_done"
  /\ UNCHANGED <<partial_data, character_state_file, arch_step, arch_loaded,
                 arch_calls, arch_invocations>>
  /\ ArchUnchanged

\* ------------------------------------------------- KnowledgeParser.__init__

\* The constructor's default for max_concurrent_requests
DefaultMaxConcurrentRequests == 200

\* The default the constructor's docstring names
DocumentedDefault == 5

\* The argument is left out
NotGiven == 0

\* KnowledgeParser(..., max_concurrent_requests=arg), or without the argument
Construct(arg) ==
  /\ pc = "new"
  /\ requested' = arg
  /\ max_concurrent_requests' =
       IF arg = NotGiven THEN DefaultMaxConcurrentRequests ELSE arg
  /\ pc' = "dispatch"
  /\ UNCHANGED <<category, segments, submitted, task, future, collected,
                 results_dict, segment_results, mergeVars, structVars, content,
                 splitVars, invokeVars, taskVars, fileVars, extButCtor, final>>

\* ------------------------------------------------------------ specifications

\* extract_worldview / extract_characters / extract_plot_outline on a document
\* of 1..MaxChunks chunks
Init ==
  /\ pc = "dispatch"
  /\ category \in Categories
  /\ max_concurrent_requests \in 1..MaxWorkers
  /\ \E n \in 1..MaxChunks :
       /\ segments = [i \in 1..n |-> Chunk(i)]
       /\ task = [i \in 1..n |-> "new"]
       /\ future = [i \in 1..n |-> Null]
  /\ submitted = 0
  /\ collected = {}
  /\ results_dict = <<>>
  /\ segment_results = <<>>
  /\ MergeIdle
  /\ StructIdle
  /\ content = <<>>
  /\ SplitIdle
  /\ InvokeIdle
  /\ TaskIdle
  /\ FileIdle
  /\ ExtIdle
  /\ final = Null

Next ==
  \/ Submit
  \/ \E i \in DOMAIN segments : StartTask(i)
  \/ \E i \in DOMAIN segments : \E r \in ExtractResponses(category) : FinishTask(i, r)
  \/ \E i \in DOMAIN segments : Collect(i)
  \/ BuildOutput
  \/ ExtractMerge
  \/ MergeNext
  \/ ExtractReturn

Spec == Init /\ [][Next]_vars

\* A direct call of _hierarchical_merge_results(results, merge_func,
\* extraction_type, group_size)
InitMerge ==
  /\ pc = "merge_entry"
  /\ category \in Categories
  /\ DispatchIdle
  /\ results \in SeqsUpTo(ResultValues(category), MaxResults)
  /\ group_size \in 2..DefaultGroupSize
  /\ current_results = <<>>
  /\ next_level_results = <<>>
  /\ level = 0
  /\ gi = 0
  /\ group = <<>>
  /\ response = NoCall
  /\ merged_result = Null
  /\ merge_calls = 0
  /\ ret = Null
  /\ StructIdle
  /\ content = <<>>
  /\ SplitIdle
  /\ InvokeIdle
  /\ TaskIdle
  /\ FileIdle
  /\ ExtIdle
  /\ final = Null

SpecMerge == InitMerge /\ [][MergeNext]_vars

CharTagsX == Dict([name |-> nameA, tags |-> List(<<sX>>)])
CharTagsY == Dict([name |-> nameA, tags |-> List(<<sY>>)])

CharEntries == {CharA1, CharA2, CharB, CharB2, CharRaw, Num(1), CharTagsX, CharTagsY}

MaxListLen == 2

\* A direct call of _merge_character_lists(base_list, new_list)
InitStruct ==
  /\ pc = "struct_call"
  /\ category = "characters"
  /\ DispatchIdle
  /\ MergeIdle
  /\ sm_base \in {List(q) : q \in SeqsUpTo(CharEntries, MaxListLen)}
  /\ sm_new \in {List(q) : q \in SeqsUpTo(CharEntries, MaxListLen)}
  /\ sm_out = Null
  /\ content = <<>>
  /\ SplitIdle
  /\ InvokeIdle
  /\ TaskIdle
  /\ FileIdle
  /\ ExtIdle
  /\ final = Null

NextStruct == CallMergeCharacterLists

SpecStruct == InitStruct /\ [][NextStruct]_vars

Alphabet == {"a", "b", " "}

MaxTextLen == 4

MaxSegmentSize == 3

\* A direct call of split_text_into_segments(content, segment_size)
InitSplit ==
  /\ pc = "split_call"
  /\ category = "worldview"
  /\ DispatchIdle
  /\ MergeIdle
  /\ StructIdle
  /\ content \in SeqsUpTo(Alphabet, MaxTextLen)
  /\ segment_size \in 1..MaxSegmentSize
  /\ cut = <<>>
  /\ split_ret = <<>>
  /\ InvokeIdle
  /\ TaskIdle
  /\ FileIdle
  /\ ExtIdle
  /\ final = Null

NextSplit == \E c \in CutChoices(content, segment_size) : CallSplit(c)

SpecSplit == InitSplit /\ [][NextSplit]_vars

MaxRetries == 3

\* A call of invoke_with_cleaning(llm_adapter, prompt, max_retries)
InitInvoke ==
  /\ pc = "invoke_loop"
  /\ category = "worldview"
  /\ DispatchIdle
  /\ MergeIdle
  /\ StructIdle
  /\ content = <<>>
  /\ SplitIdle
  /\ max_retries \in 1..MaxRetries
  /\ retry_count = 0
  /\ invoke_result = Str(<<>>)
  /\ last_error = FALSE
  /\ invocations = <<>>
  /\ sleeps = 0
  /\ invoke_ret = Null
  /\ TaskIdle
  /\ FileIdle
  /\ ExtIdle
  /\ final = Null

NextInvoke ==
  \/ \E a \in AdapterAnswers : InvokeAttempt(a)
  \/ InvokeExhausted

SpecInvoke == InitInvoke /\ [][NextInvoke]_vars

TemplateNames == KnownTemplates \cup {"other"}

\* A call of process_single_segment by a dispatcher called with
\* (extraction_type, prompt_template_name)
InitTask ==
  /\ pc = "task_call"
  /\ category \in Categories \cup {"other"}
  /\ DispatchIdle
  /\ MergeIdle
  /\ StructIdle
  /\ content = <<>>
  /\ SplitIdle
  /\ InvokeIdle
  /\ segment_data \in {Chunk(i) : i \in 1..MaxChunks}
  /\ prompt_template_name \in TemplateNames
  /\ task_answer = NoCall
  /\ task_ret = Null
  /\ FileIdle
  /\ ExtIdle
  /\ final = Null

NextTask == \E r \in ExtractResponses(category) \cup {NoCall} : CallProcessSingleSegment(r)

SpecTask == InitTask /\ [][NextTask]_vars

\* A call of parse_knowledge_from_file, or of extract_worldview,
\* extract_characters or extract_plot_outline, on a document
InitFile ==
  /\ api \in {"parse_knowledge_from_file"} \cup ExtractApis
  /\ pc = IF api = "parse_knowledge_from_file" THEN "file_entry" ELSE "extract_call"
  /\ category = IF api = "parse_knowledge_from_file" THEN "worldview" ELSE ApiCategory(api)
  /\ DispatchIdle
  /\ MergeIdle
  /\ StructIdle
  /\ content \in DocTexts
  /\ SplitIdle
  /\ InvokeIdle
  /\ TaskIdle
  /\ has_vector_store \in BOOLEAN
  /\ read_ok = TRUE
  /\ pool_result = <<>>
  /\ worldview = Null
  /\ characters = Null
  /\ plot_outline = Null
  /\ relationships = Null
  /\ file_ret = Null
  /\ completion_called = FALSE
  /\ search_called = FALSE
  /\ saved = Null
  /\ fallback_serial = FALSE
  /\ outcomes = [c \in Categories |-> ExtractOutcomes(c, content)]
  /\ ExtIdle
  /\ any_extracted = FALSE
  /\ final = Null

NextFile ==
  \/ \E e \in outcomes[category] : CallExtract(e)
  \/ \E ok \in BOOLEAN : ReadFile(ok)
  \/ \E c \in Categories : \E e \in outcomes[c] : PoolTask(c, e)
  \/ JoinPool
  \/ \E c \in Categories : \E e \in outcomes[c] : SerialTask(c, e)
  \/ \E r \in RelationshipResponses \cup {NoCall} : AnalyzeRelationships(r)
  \/ \E save_ok \in BOOLEAN : FinishFile(save_ok)

SpecFile == InitFile /\ [][NextFile]_vars

\* The pool of parse_knowledge_from_file on a document of 1..MaxChunks chunks
InitPool ==
  /\ pc = "pool_running"
  /\ category = "worldview"
  /\ max_concurrent_requests \in 1..MaxWorkers
  /\ \E n \in 1..MaxChunks : segments = [i \in 1..n |-> Chunk(i)]
  /\ submitted = 0
  /\ task = <<>>
  /\ future = <<>>
  /\ collected = {}
  /\ results_dict = <<>>
  /\ segment_results = <<>>
  /\ MergeIdle
  /\ StructIdle
  /\ content = <<>>
  /\ SplitIdle
  /\ InvokeIdle
  /\ TaskIdle
  /\ FileIdle
  /\ pool = [c \in Categories |-> WorkerWaiting]
  /\ ExtIdleButPool
  /\ final = Null

NextPool ==
  \/ \E c \in Categories : PoolStart(c)
  \/ \E c \in Categories : PoolTaskStart(c)
  \/ \E c \in Categories : \E kept \in BOOLEAN : PoolTaskEnd(c, kept)
  \/ \E c \in Categories : PoolDispatched(c)
  \/ \E c \in Categories : PoolMergeStep(c)
  \/ \E c \in Categories : \E outcome \in MergeCallOutcomes : PoolMergeReturn(c, outcome)
  \/ PoolJoin

SpecPool == InitPool /\ [][NextPool]_vars

\* A direct call of analyze_relationships(characters)
InitRel ==
  /\ pc = "rel_call"
  /\ category = "characters"
  /\ DispatchIdle
  /\ MergeIdle
  /\ StructIdle
  /\ content = <<>>
  /\ SplitIdle
  /\ InvokeIdle
  /\ TaskIdle
  /\ api = "analyze_relationships"
  /\ has_vector_store = FALSE
  /\ read_ok = TRUE
  /\ pool_result = <<>>
  /\ worldview = Null
  /\ characters \in {List(q) : q \in SeqsUpTo(CharEntries, MaxListLen)}
  /\ plot_outline = Null
  /\ relationships = Null
  /\ file_ret = Null
  /\ completion_called = FALSE
  /\ search_called = FALSE
  /\ saved = Null
  /\ fallback_serial = FALSE
  /\ outcomes = <<>>
  /\ any_extracted = FALSE
  /\ RelIdle
  /\ ExtIdleButRel
  /\ final = Null

NextRel == \E r \in RelationshipResponses \cup {LlmNone, NoCall} : CallAnalyzeRelationships(r)

SpecRel == InitRel /\ [][NextRel]_vars

\* structure with its statistics replaced
WithStatistics(structure, st) ==
  Dict([key \in DOMAIN structure.v |->
         IF key = "statistics" THEN st ELSE structure.v[key]])

\* character_count values a caller's data may carry
StatisticsOffered(structure) ==
  {Dict([k \in DOMAIN structure.v["statistics"].v |->
          IF k = "character_count" THEN Num(n) ELSE structure.v["statistics"].v[k]]) :
     n \in 0..MaxListLen}

\* Structures a caller may pass to save_extracted_knowledge: built by
\* generate_structure, with the statistics it computed or with others
SaveStructures ==
  UNION {{WithStatistics(generate_structure(wv, List(ch), pl, rl), st) :
            st \in StatisticsOffered(generate_structure(wv, List(ch), pl, rl))} :
         wv \in {WvX, Dict([elements |-> List(<<sX, sY>>)])},
         ch \in SeqsUpTo({CharA1, CharB}, MaxListLen),
         pl \in {PlotA, Dict([plot_points |-> List(<<sX>>)])},
         rl \in {EmptyDict, Dict([relationships |-> List(<<sX>>)])}}

\* A call of save_extracted_knowledge(structured_data), then the knowledge
\* tab loading the artifact
InitSave ==
  /\ pc = "save_call"
  /\ category = "worldview"
  /\ DispatchIdle
  /\ MergeIdle
  /\ StructIdle
  /\ content = <<>>
  /\ SplitIdle
  /\ InvokeIdle
  /\ TaskIdle
  /\ FileIdle
  /\ parser_filepath \in BOOLEAN
  /\ structured_data \in SaveStructures
  /\ extracted_knowledge_file = Null
  /\ current_structured_knowledge = Null
  /\ stats = Null
  /\ ExtIdleButSave
  /\ final = Null

NextSave ==
  \/ \E write_ok \in BOOLEAN : SaveExtractedKnowledge(write_ok)
  \/ LoadExistingKnowledge

SpecSave == InitSave /\ [][NextSave]_vars

PlotPointP == Obj("PlotPoint", [name |-> sX, description |-> sY])
ElementG ==
  Obj("WorldViewElement",
      [category |-> sX, name |-> sX, description |-> sY, importance |-> sX])
CharacterA == Obj("Character", [name |-> nameA, role |-> Str(<<>>)])
PlotLineOf(points) ==
  Obj("PlotLine", [name |-> sX, description |-> sY, plot_points |-> List(points)])

WorldViewOf(geography, other_elements) ==
  Obj("WorldView",
      [f \in {WorldViewLists[i] : i \in 1..Len(WorldViewLists)} \cup {"name"} |->
         IF f = "name" THEN sX
         ELSE IF f = "geography" THEN List(geography)
         ELSE IF f = "other_elements" THEN List(other_elements)
         ELSE EmptyList])

\* StructuredKnowledge values with up to MaxListLen characters, world view
\* elements in two of the lists, key plot points and plot lines with points
KnowledgeValues ==
  {Obj("StructuredKnowledge",
       [metadata |-> Obj("KnowledgeMetadata", [extraction_version |-> Str(<<"1", ".", "0">>)]),
        worldview |-> WorldViewOf(c[2], c[3]),
        characters |-> List(c[1]),
        plot_outline |->
          Obj("PlotOutline",
              [key_plot_points |-> List(c[4]),
               main_plot_lines |-> List(c[5]),
               sub_plot_lines |-> List(c[6])]),
        relationship_network |->
          Obj("RelationshipNetwork", [characters |-> EmptyList, relationships |-> EmptyList])]) :
     c \in SeqsUpTo({CharacterA}, MaxListLen)
           \X SeqsUpTo({ElementG}, 1) \X SeqsUpTo({ElementG}, 1)
           \X SeqsUpTo({PlotPointP}, 1)
           \X SeqsUpTo({PlotLineOf(<<>>), PlotLineOf(<<PlotPointP>>)}, 1)
           \X SeqsUpTo({PlotLineOf(<<PlotPointP>>)}, 1)}

\* A StructuredKnowledge value saved with save_to_file and read back with
\* load_from_file
InitKs ==
  /\ pc = "ks_save"
  /\ category = "worldview"
  /\ DispatchIdle
  /\ MergeIdle
  /\ StructIdle
  /\ content = <<>>
  /\ SplitIdle
  /\ InvokeIdle
  /\ TaskIdle
  /\ FileIdle
  /\ knowledge \in KnowledgeValues
  /\ knowledge_file = Null
  /\ loaded = Null
  /\ ExtIdleButKs
  /\ final = Null

NextKs ==
  \/ \E write_ok \in BOOLEAN : SaveToFile(write_ok)
  \/ LoadFromFile

SpecKs == InitKs /\ [][NextKs]_vars

\* A project directory without files, on which Novel_architecture_generate
\* is invoked up to MaxInvocations times
InitArch ==
  /\ pc = "arch_idle"
  /\ category = "worldview"
  /\ DispatchIdle
  /\ MergeIdle
  /\ StructIdle
  /\ content = <<>>
  /\ SplitIdle
  /\ InvokeIdle
  /\ TaskIdle
  /\ FileIdle
  /\ ArchIdle
  /\ ExtIdleButArch
  /\ final = Null

NextArch ==
  \/ ArchStart
  \/ ArchStageSkip
  \/ \E result \in StageResults : ArchStageCall(result)
  \/ ArchFinish

SpecArch == InitArch /\ [][NextArch]_vars

\* A KnowledgeParser is constructed, with or without max_concurrent_requests,
\* and one of its extract_* operations is called
InitCtor ==
  /\ pc = "new"
  /\ category \in Categories
  /\ max_concurrent_requests = 0
  /\ \E n \in 1..MaxChunks :
       /\ segments = [i \in 1..n |-> Chunk(i)]
       /\ task = [i \in 1..n |-> "new"]
       /\ future = [i \in 1..n |-> Null]
  /\ submitted = 0
  /\ collected = {}
  /\ results_dict = <<>>
  /\ segment_results = <<>>
  /\ MergeIdle
  /\ StructIdle
  /\ content = <<>>
  /\ SplitIdle
  /\ InvokeIdle
  /\ TaskIdle
  /\ FileIdle
  /\ ExtIdle
  /\ final = Null

NextCtor ==
  \/ \E arg \in {NotGiven} \cup 1..MaxWorkers : Construct(arg)
  \/ Next

SpecCtor == InitCtor /\ [][NextCtor]_vars

sXY == Str(<<"X", "Y">>)

\* Values of one field of a mapping: strings, a number, a boolean, null,
\* lists and nested mappings two levels deep
FieldValues ==
  {sX, sY, sXY, Num(1), Bool(TRUE), Null,
   List(<<sX>>), List(<<sY, sY>>), List(<<sX, sY>>),
   Dict([s |-> sX]), Dict([s |-> sY]),
   Dict([l |-> List(<<sX>>)]), Dict([l |-> List(<<sY, sY>>)]),
   Dict([d |-> Dict([l |-> List(<<sX>>)])]), Dict([d |-> Dict([l |-> List(<<sY>>)])])}

\* Mappings with no field, the field k, or the fields k and j
Mappings ==
  {EmptyDict} \cup {Dict([k |-> x]) : x \in FieldValues}
    \cup {Dict([k |-> sX, j |-> x]) : x \in {sY, List(<<sX>>)}}

\* A direct call of _merge_worldview_data(base_data, new_data)
InitMap ==
  /\ pc = "map_call"
  /\ category = "worldview"
  /\ DispatchIdle
  /\ MergeIdle
  /\ StructIdle
  /\ content = <<>>
  /\ SplitIdle
  /\ InvokeIdle
  /\ TaskIdle
  /\ FileIdle
  /\ wm_base \in Mappings
  /\ wm_new \in Mappings
  /\ wm_out = Null
  /\ base_after = Null
  /\ new_after = Null
  /\ ExtIdleButMap
  /\ final = Null

NextMap == CallMergeWorldviewData

SpecMap == InitMap /\ [][NextMap]_vars


\* ------------------------------------------------------------------ claims

ChunkCount == Len(segments)

\* The category contract: a mapping for worldview and plot, a list for characters
ShapeOK(x, extraction_type) ==
  IF extraction_type = "characters" THEN IsList(x) ELSE IsDict(x)

CategoryEmpty(extraction_type) ==
  IF extraction_type \in {"worldview", "plot"} THEN Dict(<<>>) ELSE List(<<>>)

MergeFailed == response.kind \in {"raise", "empty", "text"}

\* The non-None task results, listed by chunk
TaskResultsInChunkOrder ==
  LET idx == SelectSeq([i \in 1..ChunkCount |-> i], LAMBDA i : future[i] # Null)
  IN [k \in 1..Len(idx) |-> future[idx[k]]]

\* The chunk orders a result carries in its segment metadata
MetaOrders(x) ==
  LET ofDict(d) == IF IsDict(d) /\ "_segment_metadata" \in DOMAIN d.v
                     THEN {d.v["_segment_metadata"].v["order"].v} ELSE {}
  IN IF IsList(x) THEN UNION {ofDict(x.v[i]) : i \in 1..Len(x.v)} ELSE ofDict(x)

DispatcherReturned == pc \notin {"dispatch", "struct_call", "struct_done"} /\ ChunkCount > 0

\* C1: whatever the completion order of the tasks and the pool bound, the
\* dispatcher returns exactly the non-null task results listed in chunk order,
\* so the chunk orders carried by the results are strictly increasing.
C1_OrderPreserved ==
  DispatcherReturned =>
    /\ segment_results = TaskResultsInChunkOrder
    /\ \A k, l \in 1..Len(segment_results) :
         k < l => \A a \in MetaOrders(segment_results[k]) :
                    \A b \in MetaOrders(segment_results[l]) : a < b

\* Three chunks all extracted, the last chunk's result stored first.
C1_Witness ==
  /\ pc = "dispatched"
  /\ ChunkCount = 3
  /\ Len(results_dict) = 3
  /\ results_dict[1].key = 3
  /\ results_dict[3].key = 1
  /\ max_concurrent_requests = 2
  /\ MetaOrders(segment_results[1]) = {1}
  /\ MetaOrders(segment_results[3]) = {3}

FailedChunks == {i \in 1..ChunkCount : future[i] = Null}

\* C2: with f failed chunks (task result None) the dispatcher returns N - f
\* results, none of them a placeholder and none carrying a failed chunk's
\* order, every surviving task result is in the output, and with f = N the
\* category operation ends with the category's empty value and never enters
\* the merger.  The dispatcher itself never raises: an exception is only ever
\* raised later, by the merge of a group.
C2_FailureTolerant ==
  DispatcherReturned =>
    /\ Len(segment_results) = ChunkCount - Cardinality(FailedChunks)
    /\ \A k \in 1..Len(segment_results) :
         /\ segment_results[k] # Null
         /\ MetaOrders(segment_results[k]) \cap FailedChunks = {}
    /\ \A i \in (1..ChunkCount) \ FailedChunks :
         \E k \in 1..Len(segment_results) : segment_results[k] = future[i]
    /\ FailedChunks = 1..ChunkCount =>
         /\ pc \in {"dispatched", "done"}
         /\ pc = "done" => final = CategoryEmpty(category)
    /\ pc = "raised" => results = segment_results /\ Len(group) >= 2

\* Three chunks, exactly the second failed, two results returned.
C2_Witness ==
  /\ pc = "dispatched"
  /\ ChunkCount = 3
  /\ FailedChunks = {2}
  /\ Len(segment_results) = 2
  /\ MetaOrders(segment_results[1]) = {1}
  /\ MetaOrders(segment_results[2]) = {3}


\* C3: for a non-empty result list, _hierarchical_merge_results ends by
\* returning one value (no exception leaves it) and no level is as long as
\* the level it was built from.
C3_TerminatesWithOneValue ==
  results # <<>> =>
    /\ pc # "raised"
    /\ pc = "merge_for" => Len(next_level_results) < Len(current_results)
    /\ pc = "merge_returned" => ret # Raised

\* C4: an empty input list gives the category's empty value, a one-element
\* list gives its element, and neither makes a completion-service call nor
\* enters the level loop.
C4_TrivialInputs ==
  Len(results) <= 1 =>
    /\ merge_calls = 0
    /\ pc \in {"merge_entry", "merge_returned"}
    /\ pc = "merge_returned" =>
         ret = IF results = <<>> THEN CategoryEmpty(category) ELSE results[1]

C4_Witness ==
  /\ pc = "merge_returned"
  /\ category = "characters"
  /\ results = <<>>
  /\ ret = List(<<>>)

\* C5: with level-0 inputs of the category's shape, every element of every
\* level and the returned value have the category's shape.
C5_ShapePreserved ==
  (\A k \in 1..Len(results) : ShapeOK(results[k], category)) =>
    /\ \A k \in 1..Len(current_results) : ShapeOK(current_results[k], category)
    /\ \A k \in 1..Len(next_level_results) : ShapeOK(next_level_results[k], category)
    /\ pc = "merge_returned" => ShapeOK(ret, category)

NameOf(entry) == Get(entry, "name", Str(<<>>))

NoDuplicateNames(items) ==
  \A i, j \in 1..Len(items) :
    (i < j /\ IsDict(items[i]) /\ IsDict(items[j]) /\ Truthy(NameOf(items[i])))
      => NameOf(items[i]) # NameOf(items[j])

\* C6: for characters, the list a merge step produced for a group of two or
\* more results has no two entries with the same non-empty name.
C6_UniqueNames ==
  (category = "characters" /\ Len(group) >= 2 /\ IsList(merged_result))
    => NoDuplicateNames(merged_result.v)

UniqueNamed(list) ==
  /\ \A i \in 1..Len(list.v) :
       IsDict(list.v[i]) /\ IsStr(NameOf(list.v[i])) /\ Truthy(NameOf(list.v[i]))
  /\ \A i, j \in 1..Len(list.v) : i < j => NameOf(list.v[i]) # NameOf(list.v[j])

NamesOf(list) == {NameOf(list.v[i]) : i \in 1..Len(list.v)}

\* C7: the structural merge of two character lists with non-empty names,
\* unique within each list, has exactly one entry per name of either list, and
\* the entry of a name of both lists has every field key of both source entries.
C7_CharacterMerge ==
  (pc = "struct_done" /\ UniqueNamed(sm_base) /\ UniqueNamed(sm_new)) =>
    /\ IsList(sm_out)
    /\ UniqueNamed(sm_out)
    /\ NamesOf(sm_out) = NamesOf(sm_base) \cup NamesOf(sm_new)
    /\ \A i \in 1..Len(sm_base.v) : \A j \in 1..Len(sm_new.v) :
         NameOf(sm_base.v[i]) = NameOf(sm_new.v[j]) =>
           \A k \in 1..Len(sm_out.v) :
             NameOf(sm_out.v[k]) = NameOf(sm_base.v[i]) =>
               (DOMAIN sm_base.v[i].v) \cup (DOMAIN sm_new.v[j].v) \subseteq DOMAIN sm_out.v[k].v

C7_Witness ==
  /\ pc = "struct_done"
  /\ sm_base = List(<<CharA1>>)
  /\ sm_new = List(<<CharA2, CharB>>)
  /\ Len(sm_out.v) = 2
  /\ DOMAIN sm_out.v[1].v = {"name", "age", "description"}

RECURSIVE ContainsText(_, _)
ContainsText(x, chars) ==
  CASE x.t = "str" -> IsSubstr(chars, x.v)
    [] x.t = "list" -> \E i \in 1..Len(x.v) : ContainsText(x.v[i], chars)
    [] x.t = "dict" -> \E key \in DOMAIN x.v : ContainsText(x.v[key], chars)
    [] OTHER -> FALSE

\* The scenario: three chunks, the first extracted as {"setting": "X"}, the
\* second as {"setting": "Y"}, the third failed, the merge call failed too.
C8_Scenario ==
  /\ category = "worldview"
  /\ ChunkCount = 3
  /\ pc = "done"
  /\ IsDict(future[1]) /\ "setting" \in DOMAIN future[1].v /\ future[1].v["setting"] = sX
  /\ IsDict(future[2]) /\ "setting" \in DOMAIN future[2].v /\ future[2].v["setting"] = sY
  /\ future[3] = Null
  /\ MergeFailed

\* C8: in that scenario extract_worldview returns one mapping whose content
\* contains both "X" and "Y".
C8_EndToEndWorldview ==
  C8_Scenario =>
    /\ IsDict(final)
    /\ ContainsText(final, <<"X">>)
    /\ ContainsText(final, <<"Y">>)

C8_Witness ==
  /\ C8_Scenario
  /\ final.v["setting"] = Str(<<"X", "\n", "Y">>)

\* The structural merge applied pairwise, left to right
RECURSIVE PairwiseLeft(_, _, _)
PairwiseLeft(acc, rest, extraction_type) ==
  IF rest = <<>> \/ acc = Raised THEN acc
  ELSE PairwiseLeft(
         IF extraction_type = "characters"
           THEN _merge_character_lists(acc, Head(rest))
           ELSE _merge_worldview_data(acc, Head(rest)),
         Tail(rest), extraction_type)

C10_ShapeMismatchIsParseFailure ==
  (/\ Len(group) >= 2
   /\ response.kind = "json"
   /\ ~ShapeOK(response.val, category))
    => merged_result = _fallback_merge_group(group, category)

\* The texts of the returned chunks, concatenated in order
RECURSIVE ConcatTexts(_)
ConcatTexts(chunks) ==
  IF chunks = <<>> THEN <<>> ELSE Head(chunks).text.v \o ConcatTexts(Tail(chunks))

NonWhitespace(s) == SelectSeq(s, LAMBDA ch : ch \notin Whitespace)

SplitReturned == pc = "split_done"

\* C11: for a text no longer than segment_size, split_text_into_segments
\* returns exactly one chunk, whose text is the trimmed input, with order 1
\* and segment_id seg_001.
C11_ShortTextOneChunk ==
  (SplitReturned /\ Len(content) <= segment_size) =>
    /\ Len(split_ret) = 1
    /\ split_ret[1].text = Str(strip(content))
    /\ split_ret[1].order = 1
    /\ split_ret[1].segment_id = Str(<<"s", "e", "g", "_", "0", "0", "1">>)

\* C12: for a text longer than segment_size, the non-whitespace content of
\* the returned chunks, read in order, is the non-whitespace content of the
\* source.
C12_Coverage ==
  (SplitReturned /\ Len(content) > segment_size) =>
    NonWhitespace(ConcatTexts(split_ret)) = NonWhitespace(content)

\* The tokenizer path was left for the plain slicing
UsedFallback ==
  /\ strip(content) # <<>>
  /\ Len(content) > segment_size
  /\ SmartLoop(content, segment_size, 0, <<>>, cut).raised

WindowStarts ==
  IF strip(content) = <<>> THEN {}
  ELSE IF Len(content) <= segment_size THEN {0}
  ELSE {i \in 0..(Len(content) - 1) : i % segment_size = 0}

\* Where the chunk formed for the window at i ends
ChunkEnd(i) ==
  LET full == IF i + segment_size < Len(content) THEN i + segment_size ELSE Len(content)
      k == (i \div segment_size) + 1
  IN IF UsedFallback \/ k \notin DOMAIN cut \/ Len(content) <= segment_size THEN full
     ELSE IF Len(cut[k].words) > 1 /\ SplitPoint(cut[k].words, 1, 0, segment_size) > 0
       THEN i + SplitPoint(cut[k].words, 1, 0, segment_size)
     ELSE full

\* C13: in the list split_text_into_segments returns, on the tokenizer path
\* and on the fallback path, the k-th entry has order k and segment_id "seg_"
\* followed by the three-digit order, and the entries are exactly the chunks
\* that are non-empty after trimming: none of them is dropped.
C13_SequentialOrders ==
  SplitReturned =>
    /\ \A k \in 1..Len(split_ret) :
         /\ split_ret[k].order = k
         /\ split_ret[k].segment_id = Str(<<"s", "e", "g", "_">> \o Pad3(k))
         /\ Len(Pad3(k)) = 3
    /\ {split_ret[k].start_pos : k \in 1..Len(split_ret)}
         = {i \in WindowStarts : strip(Slice(content, i, ChunkEnd(i))) # <<>>}
    /\ \A k, l \in 1..Len(split_ret) :
         k < l => split_ret[k].start_pos < split_ret[l].start_pos

\* Two blank windows dropped on the fallback path, the chunk after them second.
C13_Witness ==
  /\ SplitReturned
  /\ content = <<"a", " ", " ", "b">>
  /\ segment_size = 1
  /\ UsedFallback
  /\ Len(split_ret) = 2
  /\ split_ret[2].start_pos = 3
  /\ split_ret[2].order = 2

\* An attempt that does not end the retry loop
FailedAttempt(a) ==
  \/ a.raises
  \/ ~Truthy(a.value)
  \/ CleanFences(a.value.v) = <<>>

FailedCount == Cardinality({k \in 1..Len(invocations) : FailedAttempt(invocations[k])})

InvokeReturned == pc = "invoke_returned"

\* C14: invoke_with_cleaning calls the completion service at least once and at
\* most max_retries times; an exception and an empty or whitespace-only
\* response (after the fences are removed) both count as a failed attempt; no
\* attempt follows one that gave a non-empty response; and the delay is taken
\* after every failed attempt but the last of max_retries.
C14_BoundedRetry ==
  /\ Len(invocations) <= max_retries
  /\ InvokeReturned => Len(invocations) >= 1
  /\ retry_count = FailedCount
  /\ \A k \in 1..(Len(invocations) - 1) : FailedAttempt(invocations[k])
  /\ (invocations # <<>> /\ ~FailedAttempt(invocations[Len(invocations)]))
       => InvokeReturned /\ invoke_ret = Str(CleanFences(invocations[Len(invocations)].value.v))
  /\ sleeps = IF retry_count = max_retries THEN retry_count - 1 ELSE retry_count

\* An exception, a fence-only response, then a response: three calls, two delays.
C14_Witness ==
  /\ InvokeReturned
  /\ max_retries = 3
  /\ invocations = <<AdapterRaises, AdapterReturns(Str(FenceJson \o <<" ">> \o Fence)),
                     AdapterReturns(Str(FenceJson \o <<"z", " ">> \o Fence))>>
  /\ sleeps = 2
  /\ invoke_ret = Str(<<"z">>)

\* The cleaned value of the last answer that was returned, "" when every
\* call raised
LastResult ==
  LET got == {k \in 1..Len(invocations) : ~invocations[k].raises}
  IN IF got = {} THEN Str(<<>>)
     ELSE LET k == CHOOSE j \in got : \A i \in got : i <= j
              v == invocations[k].value
          IN IF Truthy(v) THEN Str(CleanFences(v.v)) ELSE v

\* C15: when all max_retries attempts failed, by exception or by empty
\* response in any mix, invoke_with_cleaning returns without raising and the
\* value returned is the last result, which is empty.
C15_ExhaustedReturnsLast ==
  (InvokeReturned /\ FailedCount = max_retries) =>
    /\ invoke_ret # Raised
    /\ invoke_ret = LastResult
    /\ ~Truthy(invoke_ret)

\* An empty response, then an exception: the empty response is returned.
C15_Witness ==
  /\ InvokeReturned
  /\ max_retries = 2
  /\ invocations = <<AdapterReturns(Null), AdapterRaises>>
  /\ last_error
  /\ invoke_ret = Null

ParseCall == api = "parse_knowledge_from_file"

FileReturned == pc = "file_returned"

StructureKeys ==
  {"metadata", "worldview", "characters", "plot_outline", "relationships", "statistics"}

IsStructure(x) == IsDict(x) /\ DOMAIN x.v = StructureKeys

\* C16: parse_knowledge_from_file never raises to its caller, whatever the
\* completion service does on any call of the extraction, the merging or the
\* relationship analysis (exception, empty response, text that is not JSON,
\* JSON of the wrong shape): every run ends by returning a structure or null.
C16_NeverRaises ==
  ParseCall =>
    /\ pc # "file_raised"
    /\ FileReturned => (file_ret = Null \/ IsStructure(file_ret))

\* The pool met an exception, the serial fallback met one again, and the call
\* returned null
C16_Witness ==
  /\ ParseCall
  /\ FileReturned
  /\ fallback_serial
  /\ completion_called
  /\ plot_outline = Null
  /\ file_ret = Null

\* C17: when no segment is extractable in any of the three categories (every
\* extraction call fails or returns empty for worldview, characters and plot),
\* parse_knowledge_from_file returns null.
C17_NothingExtractedReturnsNull ==
  (ParseCall /\ FileReturned /\ ~any_extracted) => file_ret = Null

\* The document is empty or holds nothing but whitespace
BlankInput == \A i \in 1..Len(content) : content[i] \in Whitespace

\* C18: for an empty or whitespace-only document parse_knowledge_from_file
\* returns null and extract_worldview, extract_characters and
\* extract_plot_outline return the empty value of their category, and no run
\* on such a document calls the completion service or similarity_search.
C18_BlankDocumentNoCalls ==
  BlankInput =>
    /\ ~completion_called
    /\ ~search_called
    /\ pc # "file_raised"
    /\ FileReturned =>
         file_ret = IF ParseCall THEN Null ELSE CategoryEmpty(ApiCategory(api))

\* extract_characters has returned on a whitespace-only document with a vector
\* store loaded
C18_Witness ==
  /\ api = "extract_characters"
  /\ FileReturned
  /\ content = <<" ">>
  /\ has_vector_store
  /\ file_ret = EmptyList

TaskReturned == pc = "task_done"

\* C19: a request for an unknown category (an extraction type or a template
\* name outside the known ones) ends with an error that reaches the caller;
\* it is not given a default and not turned into a dropped segment.
C19_UnknownCategoryFailsFast ==
  (TaskReturned /\ (prompt_template_name \notin KnownTemplates \/ category \notin Categories))
    => task_ret = Raised

\* The wrapped raw text of the textual fallback
IsRawContent(x) ==
  /\ IsDict(x)
  /\ {"raw_content", "parsed"} \subseteq DOMAIN x.v
  /\ IsStr(x.v["raw_content"])
  /\ x.v["parsed"] = Bool(FALSE)

IsTextFallback(x, extraction_type) ==
  IF extraction_type = "characters"
    THEN IsList(x) /\ Len(x.v) = 1 /\ IsRawContent(x.v[1])
    ELSE IsRawContent(x)

\* A non-empty response that does not parse to the category's shape
UnparseableAnswer ==
  \/ task_answer.kind = "text"
  \/ task_answer.kind = "json" /\ ~ShapeOK(task_answer.val, category)

\* C20: for each of the three categories, a non-empty response that cannot be
\* parsed as the category's shape makes the task return the textual-fallback
\* value wrapping the raw text: it neither fails nor drops the segment.
C20_UnparseableIsWrapped ==
  (/\ TaskReturned
   /\ category \in Categories
   /\ prompt_template_name = TemplateOf(category)
   /\ UnparseableAnswer)
    => /\ task_ret # Null
       /\ task_ret # Raised
       /\ IsTextFallback(task_ret, category)

\* The raw text of a textual-fallback result x is still in the merged value m
RawContentKept(x, m, extraction_type) ==
  LET raw(d) == d.v["raw_content"].v
      holds(d, text) == /\ IsDict(d)
                        /\ "raw_content" \in DOMAIN d.v
                        /\ IsStr(d.v["raw_content"])
                        /\ IsSubstr(text, raw(d))
  IN IF extraction_type = "characters"
       THEN IsList(m) /\ \E i \in 1..Len(m.v) : holds(m.v[i], raw(x.v[1]))
       ELSE holds(m, raw(x))

\* C21: a textual-fallback segment result (raw_content carrying the unparsed
\* text, no name) is carried through the structural merge: after the merge of
\* any group that contains it, for worldview, plot and characters alike, its
\* raw content is still present in the merged value.
C21_RawContentSurvivesMerge ==
  (Len(group) >= 2 /\ MergeFailed /\ merged_result # Raised) =>
    \A i \in 1..Len(group) :
      IsTextFallback(group[i], category) =>
        RawContentKept(group[i], merged_result, category)

\* A task that left a stage of its life (new, queued, running, done) never
\* comes back to it
TaskStage(st) ==
  CASE st = "new" -> 0 [] st = "queued" -> 1 [] st = "running" -> 2 [] OTHER -> 3

\* C22: during one dispatch call one extraction task is submitted per chunk
\* and each is executed exactly once, and at every moment the number of
\* extraction tasks executing is at most max_concurrent_requests.
C22_BoundedPool ==
  /\ [](/\ Cardinality(Running) <= max_concurrent_requests
        /\ submitted <= ChunkCount
        /\ \A i \in 1..ChunkCount : (task[i] # "new") = (i <= submitted)
        /\ DispatcherReturned =>
             (submitted = ChunkCount /\ \A i \in 1..ChunkCount : task[i] = "done"))
  /\ [][\A i \in 1..ChunkCount :
          /\ TaskStage(task'[i]) >= TaskStage(task[i])
          /\ TaskStage(task'[i]) <= TaskStage(task[i]) + 1]_vars

\* Every worker is busy and a submitted task is waiting for one
C22_Witness ==
  /\ pc = "dispatch"
  /\ ChunkCount = MaxChunks
  /\ Cardinality(Running) = max_concurrent_requests
  /\ \E i \in 1..ChunkCount : task[i] = "queued"

MergeCallsInFlight == {c \in Categories : pool[c].stage = "merge_call"}

ExtractionTasksInFlight == {c \in Categories : pool[c].running > 0}

\* C23: in a run of parse_knowledge_from_file the dispatcher is the only
\* parallel stage: merge calls execute strictly one at a time, so no merge
\* completion call is in flight at the same time as another merge call or as
\* an extraction task.
C23_MergeCallsAlone ==
  pc = "pool_running" =>
    /\ Cardinality(MergeCallsInFlight) <= 1
    /\ MergeCallsInFlight # {} => ExtractionTasksInFlight = {}

RelReturned == pc = "rel_returned"

\* C24: analyze_relationships returns {} without any call of the completion
\* service when the character list is empty; otherwise it issues exactly one
\* relationship-analysis request, and it returns {} and does not raise when
\* the response is empty, is not parseable JSON, or the request raises.
C24_RelationshipAnalysis ==
  /\ pc # "raised"
  /\ RelReturned =>
       /\ relationships # Raised
       /\ characters = EmptyList => (rel_requests = 0 /\ relationships = EmptyDict)
       /\ characters # EmptyList => rel_requests = 1
       /\ rel_answer.kind \in {"raise", "empty", "text", "null"} =>
            relationships = EmptyDict

\* One request was made for a non-empty list, it failed, and {} came back
C24_Witness ==
  /\ RelReturned
  /\ characters = List(<<CharA1, CharB>>)
  /\ rel_requests = 1
  /\ rel_answer = LlmRaise
  /\ relationships = EmptyDict

\* The statistics generate_structure computes from the other fields of the
\* structure a
RecomputedStatistics(a) ==
  generate_structure(a.v["worldview"], a.v["characters"], a.v["plot_outline"],
                     a.v["relationships"]).v["statistics"]

\* C25: in every artifact the save operation writes, statistics is recomputed
\* at save time from the artifact's other fields, whatever statistics the
\* data passed in carried; and a statistics value read back from storage is
\* never used as a trusted value.
C25_StatisticsRecomputed ==
  /\ extracted_knowledge_file # Null =>
       extracted_knowledge_file.v["statistics"] =
         RecomputedStatistics(extracted_knowledge_file)
  /\ (pc = "ui_loaded" /\ current_structured_knowledge # Null) =>
       stats = RecomputedStatistics(current_structured_knowledge)

\* The three counts of a StructuredKnowledge value: characters, world view
\* elements and plot points; NoCount where computing the count raises
NoCount == -1
CountOrRaised(r) == IF r = Raised THEN NoCount ELSE Len(r)
KnowledgeCounts(k) ==
  <<Len(k.v["characters"].v),
    CountOrRaised(get_all_elements(k.v["worldview"])),
    CountOrRaised(get_all_plot_points(k.v["plot_outline"]))>>

\* C26: round trip: for every StructuredKnowledge value, save_to_file followed
\* by load_from_file yields a value with the same number of characters, of
\* world view elements (get_all_elements) and of plot points
\* (get_all_plot_points) as before saving.
C26_RoundTripCounts ==
  (pc = "ks_loaded" /\ knowledge_file # Null) =>
    /\ loaded # Null
    /\ KnowledgeCounts(loaded) = KnowledgeCounts(knowledge)

\* The keys of the record on disk
RecordedKeys ==
  IF partial_architecture_file = Null THEN {} ELSE DOMAIN partial_architecture_file.v

StageIndex(key) == CHOOSE i \in 1..Len(Stages) : Stages[i] = key

\* A step in which a completion call is made for a stage
StageCalled == Len(arch_calls') = Len(arch_calls) + 1

RECURSIVE ResultsSoFar(_, _, _)
ResultsSoFar(record, calls, i) ==
  IF i > Len(calls) THEN record
  ELSE IF calls[i].result = Null \/ calls[i].result = Str(<<>>)
    THEN ResultsSoFar(record, calls, i + 1)
    ELSE ResultsSoFar(Recorded(record, calls[i].stage, calls[i].result), calls, i + 1)

\* A step that removes the record: the invocation holds all results and
\* writes the final file from them
RemovalStep ==
  (partial_architecture_file # Null /\ partial_architecture_file' = Null) =>
    /\ pc' = "arch_done"
    /\ DOMAIN partial_architecture_file.v = {Stages[i] : i \in 1..Len(Stages)}
    /\ novel_architecture_file' =
         List(<<partial_architecture_file.v["core_seed_result"],
                partial_architecture_file.v["character_dynamics_result"],
                partial_architecture_file.v["world_building_result"],
                partial_architecture_file.v["plot_arch_result"]>>)

\* The final file changes only in the step that finishes an invocation, and
\* a stopped invocation takes no further step: the next step starts another
StoppedStep ==
  /\ novel_architecture_file' # novel_architecture_file => pc' = "arch_done"
  /\ pc = "arch_stopped" => (pc' = "arch_run" /\ arch_calls' = <<>>)

C29_ConstructedBound ==
  pc # "new" =>
    /\ max_concurrent_requests =
         IF requested = NotGiven THEN DocumentedDefault ELSE requested
    /\ Cardinality(Running) <= max_concurrent_requests

\* x is a dict carrying the order and segment_id of the chunk seg
CarriesChunkMetadata(x, seg) ==
  /\ IsDict(x)
  /\ "_segment_metadata" \in DOMAIN x.v
  /\ IsDict(x.v["_segment_metadata"])
  /\ {"order", "segment_id"} \subseteq DOMAIN x.v["_segment_metadata"].v
  /\ x.v["_segment_metadata"].v["order"] = Num(seg.order)
  /\ x.v["_segment_metadata"].v["segment_id"] = seg.segment_id

\* C30: every non-null result returned by the segment extractor carries
\* segment metadata whose order and segment_id equal those of the chunk it was
\* extracted from, on every list element for characters and at the top level
\* for worldview and plot, on the JSON path and on the textual-fallback path
\* alike, for every completion response.
C30_ResultCarriesMetadata ==
  (pc = "task_done" /\ task_ret # Null) =>
    IF category = "characters"
      THEN /\ IsList(task_ret)
           /\ \A i \in 1..Len(task_ret.v) : CarriesChunkMetadata(task_ret.v[i], segment_data)
      ELSE CarriesChunkMetadata(task_ret, segment_data)

\* The two values are both lists, both mappings or both strings
SameKind(x, y) ==
  \/ IsList(x) /\ IsList(y)
  \/ IsDict(x) /\ IsDict(y)
  \/ IsStr(x) /\ IsStr(y)

\* C31: in the structural merge of two mappings, for a key present in both
\* whose two values are not both lists, not both mappings and not both
\* strings, the merged value is the incoming value; for two strings the
\* result is the base string with the incoming string appended on a new line
\* unless the incoming string is already a substring of the base.
C31_MismatchIncomingWins ==
  (pc = "map_done" /\ Truthy(wm_base) /\ Truthy(wm_new)) =>
    \A key \in (DOMAIN wm_base.v) \cap (DOMAIN wm_new.v) :
      LET b == wm_base.v[key]
          n == wm_new.v[key]
      IN /\ ~SameKind(b, n) => wm_out.v[key] = n
         /\ (IsStr(b) /\ IsStr(n)) =>
              wm_out.v[key] = IF IsSubstr(n.v, b.v) THEN b
                              ELSE Str(b.v \o <<"\n">> \o n.v)

\* C32: the structural mapping merge is a deep merge that applies the same
\* rules at every nesting depth: for two mappings under the same key, the
\* nested result equals the merge of the two nested mappings by the top-level
\* rules, so differing nested strings are combined on a new line and nested
\* lists are concatenated with every string-equal duplicate removed.
C32_SameRulesAtEveryDepth ==
  (pc = "map_done" /\ Truthy(wm_base) /\ Truthy(wm_new)) =>
    \A key \in (DOMAIN wm_base.v) \cap (DOMAIN wm_new.v) :
      (IsDict(wm_base.v[key]) /\ IsDict(wm_new.v[key])) =>
        wm_out.v[key] = _merge_worldview_data(wm_base.v[key], wm_new.v[key])

\* C33: at every merge level each group contributes exactly one element to
\* the next level, whatever the completion service returns for that group
\* (the JSON value null included): after the groups of a level the next
\* level's length is the number of groups, ceil(len / group_size), and no
\* group's content is discarded.
C33_OneElementPerGroup ==
  pc = "merge_for" =>
    /\ Len(next_level_results) = gi \div group_size
    /\ gi >= Len(current_results) =>
         Len(next_level_results) =
           (Len(current_results) + group_size - 1) \div group_size

\* C34: segment results are never mutated after creation: a structural merge
\* (of mappings or of character lists, nested lists and mappings included)
\* leaves both of its input values, and every element of the group being
\* merged, equal to what they were before the merge.
C34_MergeLeavesInputs ==
  /\ pc = "map_done" => (base_after = wm_base /\ new_after = wm_new)
  /\ pc = "struct_done" => (base_after = sm_base /\ new_after = sm_new)

\* The offsets inside a window at which one token ends and the next begins
TokenBoundaries(words) ==
  {SumSeq(SubSeq(words, 1, j)) : j \in 1..(Len(words) - 1)}

\* The token boundaries at or below 90% of segment_size
FittingBoundaries(words) ==
  {b \in TokenBoundaries(words) : 10 * b <= 9 * segment_size}

SetMax(S) == CHOOSE x \in S : \A y \in S : y <= x

\* The k-th returned chunk spans its whole window
FullWindow(k) == split_ret[k].end_pos - split_ret[k].start_pos = segment_size

\* The k-th returned chunk stops at the last token boundary of its window
\* that is not beyond 90% of segment_size
EndsAtLastFittingBoundary(k) ==
  LET w == (split_ret[k].start_pos \div segment_size) + 1
  IN /\ ~UsedFallback
     /\ w \in DOMAIN cut
     /\ FittingBoundaries(cut[w].words) # {}
     /\ split_ret[k].end_pos - split_ret[k].start_pos
          = SetMax(FittingBoundaries(cut[w].words))

\* C35: every chunk returned by split_text_into_segments has a text of at
\* most segment_size characters, and every chunk but the last of the list
\* either spans its whole window or ends at a boundary between two tokens of
\* its window, the last one whose offset is not beyond 90% of segment_size;
\* its text is the trimmed source between its start_pos and that end.
C35_ShortenedAtTokenBoundary ==
  SplitReturned =>
    /\ \A k \in 1..Len(split_ret) : Len(split_ret[k].text.v) <= segment_size
    /\ \A k \in 1..(Len(split_ret) - 1) :
         /\ FullWindow(k) \/ EndsAtLastFittingBoundary(k)
         /\ split_ret[k].text
              = Str(strip(Slice(content, split_ret[k].start_pos, split_ret[k].end_pos)))

\* A first chunk cut back to two of its three one-character tokens, and a
\* chunk after it.
C35_Witness ==
  /\ SplitReturned
  /\ segment_size = 3
  /\ Len(split_ret) = 2
  /\ ~UsedFallback
  /\ cut[1].words = <<1, 1, 1>>
  /\ split_ret[1].end_pos = 2
  /\ ~FullWindow(1)

\* The tokenizer raised for one of the windows it was asked to cut
TokenizerRaised == \E k \in DOMAIN cut : cut[k].raises

\* The starts of the fixed-size windows that are not blank
NaiveStarts ==
  {i \in 0..(Len(content) - 1) :
     /\ i % segment_size = 0
     /\ strip(Slice(content, i, i + segment_size)) # <<>>}

\* The k-th of them, counted from 1
NaiveStart(k) ==
  CHOOSE i \in NaiveStarts : Cardinality({j \in NaiveStarts : j <= i}) = k

\* The k-th chunk of the plain fixed-size slicing of the whole text
NaiveChunk(k) ==
  LET i == NaiveStart(k)
  IN [text |-> Str(strip(Slice(content, i, i + segment_size))),
      order |-> k,
      start_pos |-> i,
      end_pos |-> IF i + segment_size < Len(content) THEN i + segment_size
                  ELSE Len(content),
      segment_id |-> Str(<<"s", "e", "g", "_">> \o Pad3(k))]

\* C36: split_text_into_segments returns a list for every text and every
\* segment_size >= 1, and when the tokenizer raises for some window the list
\* is the plain fixed-size slicing of the whole text (trimmed windows, blank
\* ones dropped, numbered from 1), with nothing kept from before the failure.
C36_FallbackIsNaiveSlicing ==
  SplitReturned =>
    /\ DOMAIN split_ret = 1..Len(split_ret)
    /\ TokenizerRaised =>
         /\ Len(split_ret) = Cardinality(NaiveStarts)
         /\ \A k \in 1..Len(split_ret) : split_ret[k] = NaiveChunk(k)

\* The tokenizer cut the first window and raised at the second of three.
C36_Witness ==
  /\ SplitReturned
  /\ segment_size = 1
  /\ content = <<"a", "b", "a">>
  /\ ~cut[1].raises
  /\ cut[2].raises
  /\ Len(split_ret) = 3
  /\ split_ret[1].start_pos = 0

AllMappings(list) == \A i \in 1..Len(list.v) : IsDict(list.v[i])

\* existing_char.get("name")
RawName(entry) == Get(entry, "name", Null)

\* The j-th incoming entry has a non-empty name that neither a base entry
\* nor an earlier incoming entry has
UnseenIncoming(j) ==
  /\ Truthy(NameOf(sm_new.v[j]))
  /\ \A i \in 1..Len(sm_base.v) : NameOf(sm_base.v[i]) # NameOf(sm_new.v[j])
  /\ \A l \in 1..(j - 1) : NameOf(sm_new.v[l]) # NameOf(sm_new.v[j])

\* The result's indices behind the base entries holding the name of the
\* j-th incoming entry
TailPlaces(j) ==
  {p \in (Len(sm_base.v) + 1)..Len(sm_out.v) :
     NameOf(sm_out.v[p]) = NameOf(sm_new.v[j])}

TailPlace(j) == CHOOSE p \in TailPlaces(j) : \A q \in TailPlaces(j) : p <= q

\* C37: in the structural merge of two character lists, every base entry
\* stays at its index (unchanged when no incoming entry has its name, else
\* with its name and at least its keys), and the incoming entries with a
\* non-empty name not seen before stand behind the base entries in their
\* incoming order.
C37_PositionsPreserved ==
  (pc = "struct_done" /\ AllMappings(sm_base) /\ AllMappings(sm_new)) =>
    /\ IsList(sm_out)
    /\ Len(sm_out.v) >= Len(sm_base.v)
    /\ \A i \in 1..Len(sm_base.v) :
         /\ IsDict(sm_out.v[i])
         /\ RawName(sm_out.v[i]) = RawName(sm_base.v[i])
         /\ DOMAIN sm_base.v[i].v \subseteq DOMAIN sm_out.v[i].v
         /\ (\A j \in 1..Len(sm_new.v) : NameOf(sm_new.v[j]) # NameOf(sm_base.v[i]))
              => sm_out.v[i] = sm_base.v[i]
    /\ \A j \in 1..Len(sm_new.v) : UnseenIncoming(j) => TailPlaces(j) # {}
    /\ \A j, l \in 1..Len(sm_new.v) :
         (j < l /\ UnseenIncoming(j) /\ UnseenIncoming(l)) => TailPlace(j) < TailPlace(l)

\* A second base entry merged where it stands, and a new name behind it.
C37_Witness ==
  /\ pc = "struct_done"
  /\ sm_base = List(<<CharB, CharA1>>)
  /\ sm_new = List(<<CharA2, CharTagsY>>)
  /\ Len(sm_out.v) = 2
  /\ sm_out.v[1] = CharB
  /\ DOMAIN sm_out.v[2].v = {"name", "age", "description", "tags"}

\* A step of a worker task: the state or the result of some task changes
WorkerStep == task' # task \/ future' # future

\* A step that writes the results-by-order map, or takes a future from
\* as_completed
DispatcherStep ==
  results_dict' # results_dict \/ collected' # collected
    \/ segment_results' # segment_results

\* A worker step touches one task's own state and result and nothing the
\* dispatching thread or another task writes
WorkerStepIsLocal ==
  WorkerStep =>
    /\ ~DispatcherStep
    /\ \E i \in DOMAIN task :
         \A j \in (DOMAIN task) \ {i} : task'[j] = task[j] /\ future'[j] = future[j]

\* An insertion is made for one future taken from as_completed, whose task
\* has finished, stores that task's result under that chunk's order, which
\* is not yet in the map, and leaves every other item alone
InsertionIsSerial ==
  (results_dict' # results_dict \/ collected' # collected) =>
    \E i \in (DOMAIN segments) \ collected :
      /\ task[i] = "done"
      /\ collected' = collected \cup {i}
      /\ segments[i].order \notin DictKeys(results_dict)
      /\ results_dict' \in {results_dict,
                            Append(results_dict, [key |-> segments[i].order,
                                                  value |-> future[i]])}

\* The output list is written once, when every submitted task has finished
\* and its future has been taken
OutputAfterAll ==
  segment_results' # segment_results =>
    /\ submitted = Len(segments)
    /\ \A i \in DOMAIN segments : task[i] = "done" /\ i \in collected
    /\ ~WorkerStep
    /\ results_dict' = results_dict

\* C38: the results-by-order map of a dispatch call is written by the
\* dispatching thread alone: a worker step changes only its own task's state
\* and result, every insertion is one item for a task that has finished,
\* each chunk order is inserted at most once, and the output list is built
\* only after every submitted task has finished.
C38_SingleWriter ==
  /\ [](/\ \A i \in collected : task[i] = "done"
        /\ DictKeys(results_dict) \subseteq {segments[i].order : i \in collected}
        /\ \A k, l \in 1..Len(results_dict) :
             k # l => results_dict[k].key # results_dict[l].key)
  /\ [][WorkerStepIsLocal /\ InsertionIsSerial /\ OutputAfterAll]_vars

\* A result has been inserted while another task is still running.
C38_Witness ==
  /\ pc = "dispatch"
  /\ Len(results_dict) = 1
  /\ \E j \in DOMAIN task : task[j] = "running"
  /\ Cardinality(collected) = 1

\* extract_characters has been left, by a return or by an exception
CharactersLeft == category = "characters" /\ pc \in {"done", "raised"}

\* C39: extract_characters always returns a list to its caller, whatever the
\* document and whatever the completion service answers during extraction
\* and merging: it is never left by an exception, and a merged value that is
\* not a list is returned as the empty list.
C39_AlwaysReturnsList ==
  CharactersLeft => (pc = "done" /\ IsList(final))

\* C40: the structural merge is idempotent and has the empty value as
\* identity: merging a mapping with itself, or with {} on either side, gives
\* that mapping, and merging a character list with itself, or with [] on
\* either side, gives that list.
C40_IdempotentWithIdentity ==
  /\ pc = "map_done" =>
       /\ wm_new = wm_base => wm_out = wm_base
       /\ wm_new = EmptyDict => wm_out = wm_base
       /\ wm_base = EmptyDict => wm_out = wm_new
  /\ pc = "struct_done" =>
       /\ sm_new = sm_base => sm_out = sm_base
       /\ sm_new = EmptyList => sm_out = sm_base
       /\ sm_base = EmptyList => sm_out = sm_new

====
